---- MODULE Spec2Model ----
(***************************************************************************)
(* State-machine model of the streaming state and alert engine of          *)
(* siteops: ProximityAnalyzer (src/src/proximity.py), FallDetector         *)
(* (src/src/fall_detection.py), HeadcountMonitor (src/src/headcount.py),   *)
(* VehicleRegistry (src/src/registry.py), AlertManager (src/src/alerts.py) *)
(* and ConnectionManager (src/src/server.py).                              *)
(*                                                                         *)
(* Timestamps are floats in the source; the model uses integer ticks.      *)
(* An Optional[float] is modelled as a set: {} is None, {t} is the value t.*)
(***************************************************************************)
EXTENDS Integers, Sequences, FiniteSets, TLC

VARIABLES
    analyzer,     \* the ProximityAnalyzer object: its parameters and self.states
    prox_in,      \* arguments of the last ProximityAnalyzer.update call
    prox_ret,     \* list of warnings returned by the last ProximityAnalyzer.update
    prox_hist,    \* per pair: observer's record of the calls made so far
    detector,     \* the FallDetector object: its parameters and self.fall_states
    fall_in,      \* arguments of the last FallDetector.update call
    fall_ret,     \* (currently_fallen, new_alerts) of the last FallDetector.update
    fall_hist,    \* per person: observer's record of the calls made so far
    monitor,      \* the HeadcountMonitor object
    hc_call,      \* the last HeadcountMonitor call: its name and timestamp
    hc_ret,       \* the tuple returned by the last check_headcount
    hc_recorded,  \* observer: every (timestamp, count) passed to record_count
    monitor2,     \* a second HeadcountMonitor, constructed with the same
                  \* arguments at another reading of the clock, given the same calls
    hc_should,    \* results of should_check of monitor and monitor2, when the
                  \* last call was should_check
    registry,     \* the VehicleRegistry object: vehicles, label_to_id, next_id
    reg_file,     \* what the registry file held when the registry was constructed
    reg_before,   \* the VehicleRegistry object as it was before the last call
    reg_call,     \* the last VehicleRegistry call: its name and arguments
    reg_ret,      \* the id returned by the last match_vehicle
    reg_calls,    \* number of match_vehicle calls made
    alert_manager, \* the AlertManager object: log file, recent_events
    am_call,      \* the last AlertManager call: its name and whether it raised
    am_calls,     \* number of AlertManager emit calls made
    am_before,    \* the lines events.ndjson held when the manager was constructed
    am_emitted,   \* observer: what each emit call that returned was asked to record
    am_ret,       \* the limit and the result of the last get_recent_events
    am_script,    \* the emit methods the frame loop calls in turn, when the
                  \* calls are scripted
    disk,         \* what the registry file holds now
    save,         \* the save_registry call in progress: where it stands, the
                  \* list it writes, the items written, the file before it
    conn_manager, \* the ConnectionManager object: active_connections
    bcast,        \* the broadcast call in progress: where it stands, its
                  \* message's receivers, its list of failed connections
    ws_seen,      \* the WebSockets that have connected so far
    hc_obs        \* observer: times of the latest check_headcount (last) and
                  \* of the latest that returned has_mismatch = True (alert);
                  \* driven: the latest check was not the first and came right
                  \* after should_check returned True for its timestamp

proxVars == <<analyzer, prox_in, prox_ret, prox_hist>>

fallVars == <<detector, fall_in, fall_ret, fall_hist>>

headVars == <<monitor, hc_call, hc_ret, hc_recorded, monitor2, hc_should, hc_obs>>

regVars == <<registry, reg_file, reg_before, reg_call, reg_ret, reg_calls>>

alertVars == <<alert_manager, am_call, am_calls, am_before, am_emitted, am_ret, am_script>>

saveVars == <<disk, save>>

connVars == <<conn_manager, bcast, ws_seen>>

vars == <<analyzer, prox_in, prox_ret, prox_hist,
          detector, fall_in, fall_ret, fall_hist,
          monitor, hc_call, hc_ret, hc_recorded, monitor2, hc_should, hc_obs,
          registry, reg_file, reg_before, reg_call, reg_ret, reg_calls,
          alert_manager, am_call, am_calls, am_before, am_emitted, am_ret, am_script,
          disk, save, conn_manager, bcast, ws_seen>>

(***************************************************************************)
(* Bounds of the model                                                     *)
(***************************************************************************)
\* largest timestamp passed to ProximityAnalyzer.update
MaxTime == 3
\* largest min_duration_s a ProximityAnalyzer is constructed with
MaxMinDuration == 1
\* largest cooldown_s a ProximityAnalyzer is constructed with
MaxCooldown == 2
\* largest timestamp passed to FallDetector.update
FallMaxTime == 3
\* largest min_duration_s a FallDetector is constructed with
FallMaxMinDuration == 1
\* largest cooldown_s a FallDetector is constructed with
FallMaxCooldown == 2
\* largest timestamp passed to a HeadcountMonitor method
HeadMaxTime == 4
\* largest number of record_count calls
HeadMaxSamples == 3
\* the people counts a frame can give
PeopleCounts == {0, 1}
\* largest number of items in the registry file
MaxFileItems == 2
\* largest number of match_vehicle calls
MaxMatchCalls == 3
\* largest timestamp of a FallDetector.update call, when the calls come in any order
FallAnyMaxTime == 2
\* largest number of save_registry calls
MaxSaves == 2
\* largest number of broadcast calls
MaxBroadcasts == 2
\* largest number of AlertManager emit calls
MaxEmits == 3
\* largest number of scripted emit calls: more than the cache holds
MaxScriptedEmits == 102
\* the sample_window_s a monitor is constructed with, in ticks
SampleWindows == {0, 1}

\* the expected_active_count a monitor is constructed with
ExpectedCounts == {0, 1}

\* track ids of the people and vehicles the tracker hands out
Persons == {1, 2}
Vehicles == {10}
\* centers a person can be reported at; vehicles are reported at VehicleCenter.
\* The distances to VehicleCenter are 5 and 10.
PersonCenters == {<<3, 4>>, <<6, 8>>}
VehicleCenter == <<0, 0>>
\* pixel thresholds an analyzer is constructed with: 5 makes the distance 5
\* the boundary case of "pixel_dist <= pixel_threshold"
PixelThresholds == {5}
\* bounding boxes (x1, y1, x2, y2) a person can be reported with: wider than
\* tall (height/width = 1/3), height/width = 2/3, and of width zero
PersonBoxes == {<<0, 0, 6, 2>>, <<0, 0, 6, 4>>, <<2, 0, 2, 4>>}
\* aspect_ratio_threshold values a detector is constructed with, as fractions:
\* 3/2 is the 1.5 of the configuration, and makes height/width = 2/3 the
\* boundary case of "aspect_ratio < 1.0 / aspect_ratio_threshold"
AspectRatioThresholds == {[num |-> 3, den |-> 2]}

(***************************************************************************)
(* Helpers                                                                 *)
(***************************************************************************)
None == {}
Some(x) == {x}
Val(o) == CHOOSE x \in o : TRUE

\* floor of the square root, exact on perfect squares (np.sqrt on the
\* integer grid used here)
RECURSIVE SqrtFrom(_, _)
SqrtFrom(n, r) == IF (r + 1) * (r + 1) > n THEN r ELSE SqrtFrom(n, r + 1)

Sqrt(n) == SqrtFrom(n, 0)

\* the list of the elements of a finite set of integers in ascending order
\* (the order in which the tracker reports its tracks)
RECURSIVE Sorted(_)
Sorted(S) ==
    IF S = {} THEN <<>>
    ELSE LET m == CHOOSE x \in S : \A y \in S : x <= y
         IN  <<m>> \o Sorted(S \ {m})

Range(s) == {s[i] : i \in DOMAIN s}

(***************************************************************************)
(* ProximityAnalyzer                                                       *)
(***************************************************************************)
\* ProximityState(person_id, vehicle_id) with the dataclass defaults
ProximityState(pid, vid) ==
    [person_id |-> pid, vehicle_id |-> vid,
     first_close_time |-> None, last_close_time |-> None,
     accumulated_duration |-> 0,
     is_alerted |-> FALSE, last_alert_time |-> None]

\* ProximityWarning dataclass
ProximityWarning(pid, vid, score, duration, ts, pc, vc) ==
    [person_id |-> pid, vehicle_id |-> vid, proximity_score |-> score,
     duration_s |-> duration, timestamp |-> ts,
     person_center |-> pc, vehicle_center |-> vc]

\* ProximityAnalyzer.__init__
ProximityAnalyzerInit(pixel_threshold, min_duration_s, cooldown_s) ==
    [pixel_threshold |-> pixel_threshold,
     min_duration_s |-> min_duration_s,
     cooldown_s |-> cooldown_s,
     states |-> <<>>]

\* compute_pixel_distance: sqrt((px - vx)^2 + (py - vy)^2)
compute_pixel_distance(person, vehicle) ==
    LET px == person.center[1]
        py == person.center[2]
        vx == vehicle.center[1]
        vy == vehicle.center[2]
    IN  Sqrt((px - vx) * (px - vx) + (py - vy) * (py - vy))

\* a cooldown test that also consults is_alerted: one warning per closeness
MutCanAlertOnce(state, current_time, cooldown_s) ==
    /\ ~state.is_alerted
    /\ IF state.last_alert_time # None
       THEN ~(current_time - Val(state.last_alert_time) < cooldown_s)
       ELSE TRUE

\* the cooldown test of update (lines 155-159): can_alert
CanAlert(state, current_time, cooldown_s) ==
    IF state.last_alert_time # None
    THEN ~(current_time - Val(state.last_alert_time) < cooldown_s)
    ELSE TRUE

\* the duration test with a strict comparison
MutDurationReachedStrict(duration, min_duration_s) == duration > min_duration_s

\* the test that opens the warning branch (line 153)
DurationReached(duration, min_duration_s) == duration >= min_duration_s

\* the "objects are close" branch of update (lines 143-175) on one state:
\* the new state and the warnings it appends
CloseBranch(self, state, person, vehicle, pixel_dist, current_time) ==
    LET first == IF state.first_close_time = None
                 THEN Some(current_time) ELSE state.first_close_time
        s1 == [state EXCEPT !.first_close_time = first,
                            !.last_close_time = Some(current_time)]
        duration == current_time - Val(first)
    IN  IF DurationReached(duration, self.min_duration_s)
           /\ CanAlert(s1, current_time, self.cooldown_s)
        THEN [state |-> [s1 EXCEPT !.is_alerted = TRUE,
                                   !.last_alert_time = Some(current_time)],
              warnings |-> <<ProximityWarning(person.track_id, vehicle.track_id,
                                              pixel_dist, duration, current_time,
                                              person.center, vehicle.center)>>]
        ELSE [state |-> s1, warnings |-> <<>>]

\* a reset that forgets to clear first_close_time
MutFarBranchKeepsFirst(state) ==
    [state EXCEPT !.last_close_time = None, !.is_alerted = FALSE]

\* a reset that clears last_alert_time too
MutFarBranchClearsAlertTime(state) ==
    [state EXCEPT !.first_close_time = None,
                  !.last_close_time = None,
                  !.is_alerted = FALSE,
                  !.last_alert_time = None]

\* the "objects not close" branch of update (lines 177-181)
FarBranch(state) ==
    [state EXCEPT !.first_close_time = None,
                  !.last_close_time = None,
                  !.is_alerted = FALSE]

\* the comparison of line 142
IsClose(pixel_dist, pixel_threshold) == pixel_dist <= pixel_threshold

\* an iteration that stops warning once the frame already has a warning
MutProcessPairOneWarning(self, acc, person, vehicle, current_time) ==
    LET pair_key == <<person.track_id, vehicle.track_id>>
        pixel_dist == compute_pixel_distance(person, vehicle)
        state == IF pair_key \in DOMAIN acc.states
                 THEN acc.states[pair_key]
                 ELSE ProximityState(person.track_id, vehicle.track_id)
        close == CloseBranch(self, state, person, vehicle, pixel_dist, current_time)
        quiet == acc.warnings # <<>>
        newState == IF IsClose(pixel_dist, self.pixel_threshold)
                    THEN (IF quiet THEN [close.state EXCEPT
                                             !.is_alerted = state.is_alerted,
                                             !.last_alert_time = state.last_alert_time]
                          ELSE close.state)
                    ELSE FarBranch(state)
        newWarnings == IF IsClose(pixel_dist, self.pixel_threshold) /\ ~quiet
                       THEN close.warnings ELSE <<>>
    IN  [states |-> [k \in DOMAIN acc.states \cup {pair_key} |->
                        IF k = pair_key THEN newState ELSE acc.states[k]],
         warnings |-> acc.warnings \o newWarnings,
         active_pairs |-> acc.active_pairs \cup {pair_key}]

\* one iteration of the nested loop of update (lines 126-181).
\* acc = [states, warnings, active_pairs]
ProcessPair(self, acc, person, vehicle, current_time) ==
    LET pair_key == <<person.track_id, vehicle.track_id>>
        pixel_dist == compute_pixel_distance(person, vehicle)
        state == IF pair_key \in DOMAIN acc.states
                 THEN acc.states[pair_key]
                 ELSE ProximityState(person.track_id, vehicle.track_id)
        close == CloseBranch(self, state, person, vehicle, pixel_dist, current_time)
        newState == IF IsClose(pixel_dist, self.pixel_threshold)
                    THEN close.state ELSE FarBranch(state)
        newWarnings == IF IsClose(pixel_dist, self.pixel_threshold)
                       THEN close.warnings ELSE <<>>
    IN  [states |-> [k \in DOMAIN acc.states \cup {pair_key} |->
                        IF k = pair_key THEN newState ELSE acc.states[k]],
         warnings |-> acc.warnings \o newWarnings,
         active_pairs |-> acc.active_pairs \cup {pair_key}]

\* the nested loops "for person in people: for vehicle in vehicles" in the
\* order they run: the k-th iteration, k = 1 .. Len(people) * Len(vehicles)
RECURSIVE PairLoop(_, _, _, _, _, _)
PairLoop(self, acc, people, vehicles, current_time, k) ==
    IF k > Len(people) * Len(vehicles) THEN acc
    ELSE LET person == people[((k - 1) \div Len(vehicles)) + 1]
             vehicle == vehicles[((k - 1) % Len(vehicles)) + 1]
         IN  PairLoop(self,
                      ProcessPair(self, acc, person, vehicle, current_time),
                      people, vehicles, current_time, k + 1)

\* a clean-up that removes nothing
MutCleanUpKeepsAll(states, active_pairs) == states

\* "Clean up old states" (lines 183-186)
CleanUp(states, active_pairs) ==
    [k \in {key \in DOMAIN states : key \in active_pairs} |-> states[k]]

\* ProximityAnalyzer.update: the object after the call and the returned list
update(self, people, vehicles, current_time) ==
    LET acc == PairLoop(self,
                        [states |-> self.states, warnings |-> <<>>,
                         active_pairs |-> {}],
                        people, vehicles, current_time, 1)
    IN  [self |-> [self EXCEPT !.states = CleanUp(acc.states, acc.active_pairs)],
         warnings |-> acc.warnings]

(***************************************************************************)
(* Observer of the ProximityAnalyzer calls.  For each pair it records,     *)
(* from the arguments and results of the calls alone:                      *)
(*   since   start of the current run of updates in which the pair was     *)
(*           present and within pixel_threshold (None: not in such a run)  *)
(*   prior   a warning for the pair had been returned before that run      *)
(*   afterFar the update before that run had the pair present and too far  *)
(*   runw    time of the latest warning of the run                         *)
(*   runn    number of warnings of the run, counted up to 2                *)
(*   lastw   time of the latest warning ever                               *)
(***************************************************************************)
PairKeys == Persons \X Vehicles

HistInit ==
    [since |-> None, prior |-> FALSE, afterFar |-> FALSE,
     runw |-> None, runn |-> 0, lastw |-> None]

\* number of warnings for pair k in a returned list
CountFor(k, warnings) ==
    Cardinality({i \in DOMAIN warnings :
                    warnings[i].person_id = k[1] /\ warnings[i].vehicle_id = k[2]})

Ids(objs) == {objs[i].track_id : i \in DOMAIN objs}

ObjOf(objs, id) == objs[CHOOSE i \in DOMAIN objs : objs[i].track_id = id]

Present(k, people, vehicles) == k[1] \in Ids(people) /\ k[2] \in Ids(vehicles)

Within(k, people, vehicles, threshold) ==
    /\ Present(k, people, vehicles)
    /\ compute_pixel_distance(ObjOf(people, k[1]), ObjOf(vehicles, k[2])) <= threshold

Min2(n) == IF n > 2 THEN 2 ELSE n

\* h: the record before the call; wasFar: the call before had the pair
\* present and too far
Observe(h, wasFar, k, self, people, vehicles, current_time, warnings) ==
    LET close == Within(k, people, vehicles, self.pixel_threshold)
        n == CountFor(k, warnings)
        start == close /\ h.since = None
    IN  IF ~close
        THEN [since |-> None, prior |-> FALSE, afterFar |-> FALSE,
              runw |-> None, runn |-> 0,
              lastw |-> IF n > 0 THEN Some(current_time) ELSE h.lastw]
        ELSE [since |-> IF start THEN Some(current_time) ELSE h.since,
              prior |-> IF start THEN h.lastw # None ELSE h.prior,
              afterFar |-> IF start THEN wasFar ELSE h.afterFar,
              runw |-> IF n > 0 THEN Some(current_time)
                       ELSE IF start THEN None ELSE h.runw,
              runn |-> Min2((IF start THEN 0 ELSE h.runn) + n),
              lastw |-> IF n > 0 THEN Some(current_time) ELSE h.lastw]

\* the pair is in the frame and farther apart than the threshold
TooFar(k, people, vehicles, threshold) ==
    Present(k, people, vehicles) /\ ~Within(k, people, vehicles, threshold)

\* C31: a distance reset keeps the cooldown clock.  An update in which a
\* present pair is farther apart than the threshold leaves the pair's state
\* in the table with first_close_time and last_close_time cleared, is_alerted
\* false and last_alert_time as before.  While the state stays in the table
\* its last_alert_time is the time of the pair's last warning, so a warning
\* after re-entry comes min_duration_s or more after the re-entry and
\* cooldown_s or more after that warning.
C31_ResetKeepsCooldownClock ==
    [][\A k \in PairKeys :
          LET now == prox_in'.current_time
              had == k \in DOMAIN analyzer.states
              before == IF had THEN analyzer.states[k].last_alert_time ELSE None
          IN  /\ TooFar(k, prox_in'.people, prox_in'.vehicles, analyzer.pixel_threshold) =>
                    /\ k \in DOMAIN analyzer'.states
                    /\ analyzer'.states[k].first_close_time = None
                    /\ analyzer'.states[k].last_close_time = None
                    /\ ~analyzer'.states[k].is_alerted
                    /\ analyzer'.states[k].last_alert_time = before
              /\ (had /\ before # None) => before = prox_hist[k].lastw
              /\ CountFor(k, prox_ret') > 0 =>
                    /\ prox_hist'[k].since # None
                    /\ now - Val(prox_hist'[k].since) >= analyzer.min_duration_s
                    /\ before # None => now - Val(before) >= analyzer.cooldown_s]_vars

\* C31 witness: a pair warned about before is close again after an update in
\* which it was present and too far, its state still holds the time of that
\* warning, and the cooldown keeps the warning back although min_duration_s
\* of closeness has passed.
C31_Witness ==
    \E k \in PairKeys :
        LET h == prox_hist[k]
        IN  /\ h.since # None /\ h.afterFar /\ h.prior
            /\ analyzer.cooldown_s > 0
            /\ k \in DOMAIN analyzer.states
            /\ analyzer.states[k].last_alert_time = h.lastw
            /\ prox_in.current_time - Val(h.since) >= analyzer.min_duration_s
            /\ prox_in.current_time - Val(h.lastw) < analyzer.cooldown_s
            /\ CountFor(k, prox_ret) = 0

\* C36: proximity state invariants.  In every state of the table
\* first_close_time is set exactly when last_close_time is, first_close_time
\* <= last_close_time, and is_alerted implies that first_close_time and
\* last_alert_time are set with last_alert_time - first_close_time >=
\* min_duration_s.
C36_ProximityStateInvariants ==
    \A k \in DOMAIN analyzer.states :
        LET state == analyzer.states[k]
        IN  /\ (state.first_close_time # None) = (state.last_close_time # None)
            /\ state.first_close_time # None =>
                  Val(state.first_close_time) <= Val(state.last_close_time)
            /\ state.is_alerted =>
                  /\ state.first_close_time # None
                  /\ state.last_alert_time # None
                  /\ Val(state.last_alert_time) - Val(state.first_close_time)
                         >= analyzer.min_duration_s

\* C36 witness: an alerted state whose closeness went on after the warning,
\* with min_duration_s > 0.
C36_Witness ==
    \E k \in DOMAIN analyzer.states :
        LET state == analyzer.states[k]
        IN  /\ state.is_alerted
            /\ analyzer.min_duration_s > 0
            /\ Val(state.last_close_time) > Val(state.last_alert_time)
            /\ Val(state.first_close_time) > 0

(***************************************************************************)
(* FallDetector                                                            *)
(***************************************************************************)
\* FallState.__init__
FallStateInit(person_id, timestamp) ==
    [person_id |-> person_id,
     first_detected |-> timestamp,
     last_detected |-> timestamp,
     duration |-> 0,
     alerted |-> FALSE,
     last_alert_time |-> 0]

\* FallState.update
FallStateUpdate(state, timestamp) ==
    [state EXCEPT !.last_detected = timestamp,
                  !.duration = timestamp - state.first_detected]

\* FallDetector.__init__
FallDetectorInit(aspect_ratio_threshold, min_duration_s, cooldown_s) ==
    [aspect_ratio_threshold |-> aspect_ratio_threshold,
     min_duration_s |-> min_duration_s,
     cooldown_s |-> cooldown_s,
     fall_states |-> <<>>]

\* lines 102-111: width > 0 and height / width < 1.0 / aspect_ratio_threshold.
\* The threshold is the fraction num/den, so for width > 0 the comparison is
\* height * num < width * den.
InFallenPose(bbox, aspect_ratio_threshold) ==
    LET width == bbox[3] - bbox[1]
        height == bbox[4] - bbox[2]
    IN  /\ width > 0
        /\ height * aspect_ratio_threshold.num < width * aspect_ratio_threshold.den

\* a trigger test that forgets "not state.alerted"
MutShouldTriggerAgain(state, min_duration_s) == state.duration >= min_duration_s

\* line 127: not state.alerted and state.duration >= self.min_duration_s
ShouldTrigger(state, min_duration_s) ==
    ~state.alerted /\ state.duration >= min_duration_s

\* lines 129-130: time_since_last_alert >= self.cooldown_s
CooldownElapsed(state, timestamp, cooldown_s) ==
    timestamp - state.last_alert_time >= cooldown_s

\* one iteration of "for person in tracked_people" (lines 101-139).
\* acc = [fall_states, currently_fallen, new_alerts]
FallProcessPerson(self, acc, person, timestamp) ==
    IF ~InFallenPose(person.bbox_xyxy, self.aspect_ratio_threshold) THEN acc
    ELSE
        LET person_id == person.track_id
            fallen == acc.currently_fallen \cup {person_id}
        IN  IF person_id \notin DOMAIN acc.fall_states
            THEN [acc EXCEPT
                    !.currently_fallen = fallen,
                    !.fall_states = [k \in DOMAIN acc.fall_states \cup {person_id} |->
                                        IF k = person_id
                                        THEN FallStateInit(person_id, timestamp)
                                        ELSE acc.fall_states[k]]]
            ELSE
                LET state == FallStateUpdate(acc.fall_states[person_id], timestamp)
                    fire == /\ ShouldTrigger(state, self.min_duration_s)
                            /\ CooldownElapsed(state, timestamp, self.cooldown_s)
                    state2 == IF fire
                              THEN [state EXCEPT !.alerted = TRUE,
                                                 !.last_alert_time = timestamp]
                              ELSE state
                IN  [fall_states |-> [acc.fall_states EXCEPT ![person_id] = state2],
                     currently_fallen |-> fallen,
                     new_alerts |-> IF fire
                                    THEN Append(acc.new_alerts,
                                                <<person_id, person.center, state.duration>>)
                                    ELSE acc.new_alerts]

RECURSIVE FallLoop(_, _, _, _, _)
FallLoop(self, acc, tracked_people, timestamp, i) ==
    IF i > Len(tracked_people) THEN acc
    ELSE FallLoop(self,
                  FallProcessPerson(self, acc, tracked_people[i], timestamp),
                  tracked_people, timestamp, i + 1)

\* a clean-up that removes every state whose person is not in a fallen pose
MutFallCleanUpAtOnce(fall_states, currently_fallen, timestamp, cooldown_s) ==
    [k \in {pid \in DOMAIN fall_states : pid \in currently_fallen} |-> fall_states[k]]

\* a clean-up that removes alerted states only
MutFallCleanUpKeepsUnalerted(fall_states, currently_fallen, timestamp, cooldown_s) ==
    [k \in {pid \in DOMAIN fall_states :
                \/ pid \in currently_fallen
                \/ ~fall_states[pid].alerted
                \/ timestamp - fall_states[pid].last_detected <= cooldown_s} |->
        fall_states[k]]

\* "Clean up states for people no longer in fallen pose" (lines 141-158)
FallCleanUp(fall_states, currently_fallen, timestamp, cooldown_s) ==
    LET to_remove ==
            {pid \in DOMAIN fall_states :
                /\ pid \notin currently_fallen
                /\ IF fall_states[pid].alerted
                   THEN timestamp - fall_states[pid].last_detected > cooldown_s
                   ELSE TRUE}
    IN  [k \in DOMAIN fall_states \ to_remove |-> fall_states[k]]

\* FallDetector.update: the object after the call and the returned tuple
fall_update(self, tracked_people, timestamp) ==
    LET acc == FallLoop(self,
                        [fall_states |-> self.fall_states,
                         currently_fallen |-> {}, new_alerts |-> <<>>],
                        tracked_people, timestamp, 1)
    IN  [self |-> [self EXCEPT !.fall_states =
                      FallCleanUp(acc.fall_states, acc.currently_fallen,
                                  timestamp, self.cooldown_s)],
         currently_fallen |-> acc.currently_fallen,
         new_alerts |-> acc.new_alerts]

(***************************************************************************)
(* Observer of the FallDetector calls.  For each person it records:        *)
(*   since   start of the current run of updates in which the person was   *)
(*           in the frame with height/width < 1/aspect_ratio_threshold     *)
(*   prior   a fall alert for the person had been returned before that run *)
(*   q, qprev  an update of the run had timestamp - since >=               *)
(*           min_duration_s; qprev: the same before the last update        *)
(*   lastw, everw  time of the latest alert ever; before the last update   *)
(*   wasAlerted  the person had a state with alerted = true before the     *)
(*           last update                                                   *)
(*   dropped  the person's latest state had not alerted when an update     *)
(*           deleted it, and the person has not been lying since, or is    *)
(*           lying for the first update since                              *)
(***************************************************************************)
FallHistInit ==
    [since |-> None, prior |-> FALSE, q |-> FALSE, qprev |-> FALSE,
     lastw |-> None, everw |-> None, wasAlerted |-> FALSE, dropped |-> FALSE]

\* number of alerts for person p in a returned list
FallCountFor(p, new_alerts) ==
    Cardinality({i \in DOMAIN new_alerts : new_alerts[i][1] = p})

\* height/width < 1/aspect_ratio_threshold, for a box that has a ratio
RatioBelow(bbox, threshold) ==
    /\ bbox[3] # bbox[1]
    /\ (bbox[4] - bbox[2]) * threshold.num < (bbox[3] - bbox[1]) * threshold.den

LyingIn(p, tracked_people, threshold) ==
    /\ p \in Ids(tracked_people)
    /\ RatioBelow(ObjOf(tracked_people, p).bbox_xyxy, threshold)

FallObserve(h, p, self, tracked_people, timestamp, new_alerts) ==
    LET lying == LyingIn(p, tracked_people, self.aspect_ratio_threshold)
        alertedNow == FallCountFor(p, new_alerts) > 0
        start == lying /\ h.since = None
        since == IF ~lying THEN None
                 ELSE IF start THEN Some(timestamp) ELSE h.since
        qnow == lying /\ timestamp - Val(since) >= self.min_duration_s
    IN  [since |-> since,
         prior |-> IF ~lying THEN FALSE
                   ELSE IF start THEN h.lastw # None ELSE h.prior,
         q |-> IF ~lying THEN FALSE
               ELSE IF start THEN qnow ELSE h.q \/ qnow,
         qprev |-> IF ~lying \/ start THEN FALSE ELSE h.q,
         lastw |-> IF alertedNow THEN Some(timestamp) ELSE h.lastw,
         everw |-> h.lastw,
         wasAlerted |-> /\ p \in DOMAIN self.fall_states
                        /\ self.fall_states[p].alerted,
         dropped |-> IF lying THEN start /\ h.dropped
                     ELSE IF p \in DOMAIN self.fall_states
                          THEN ~self.fall_states[p].alerted
                          ELSE h.dropped]

(***************************************************************************)
(* Claims about ProximityAnalyzer                                          *)
(***************************************************************************)
ProxNow == prox_in.current_time

ProxCount(k) == CountFor(k, prox_ret)

\* the pair was in a run before the last call and an update of that run had
\* current_time >= since + min_duration_s (timestamps do not decrease)
Reached(h, now, min_duration_s) ==
    h.since # None /\ now >= Val(h.since) + min_duration_s

\* C1: duration gating.  For a pair that has been present and within
\* pixel_threshold in every update since t0 and had no warning before t0, an
\* update with current_time < t0 + min_duration_s returns no warning for it,
\* and the first update with current_time >= t0 + min_duration_s returns
\* exactly one.
C1_DurationGating ==
    [][\A k \in PairKeys :
          LET h == prox_hist'[k]
              now == prox_in'.current_time
              n == CountFor(k, prox_ret')
          IN  (h.since # None /\ ~h.prior) =>
                  /\ (now < Val(h.since) + analyzer.min_duration_s) => n = 0
                  /\ (/\ now >= Val(h.since) + analyzer.min_duration_s
                      /\ ~Reached(prox_hist[k], prox_in.current_time,
                                  analyzer.min_duration_s))
                         => n = 1]_vars

\* C1 witness: a run that began at t0 > 0 with no warning before it is at
\* t0 + min_duration_s, with min_duration_s > 0, and its first warning is
\* returned.
C1_Witness ==
    \E k \in PairKeys :
        LET h == prox_hist[k]
        IN  /\ h.since # None /\ ~h.prior
            /\ analyzer.min_duration_s > 0
            /\ Val(h.since) > 0
            /\ ProxNow = Val(h.since) + analyzer.min_duration_s
            /\ h.runn = 1
            /\ ProxCount(k) = 1

\* C2: cooldown suppression.  If a warning for a pair was returned at t1, no
\* update with t1 < current_time < t1 + cooldown_s returns a warning for the
\* same pair, also when the pair left the frame and came back in between.
C2_CooldownSuppression ==
    [][\A k \in PairKeys :
          LET t1 == prox_hist[k].lastw
              now == prox_in'.current_time
          IN  (t1 # None /\ CountFor(k, prox_ret') > 0 /\ Val(t1) < now)
                  => now >= Val(t1) + analyzer.cooldown_s]_vars

\* C3: reset on departure.  After an update in which the pair was present and
\* farther than pixel_threshold, the next update in which it is within the
\* threshold, at t2, restarts accumulation at t2: first_close_time is t2 and
\* no warning for the pair is returned before t2 + min_duration_s.
C3_ResetOnDeparture ==
    \A k \in PairKeys :
        LET h == prox_hist[k]
        IN  (h.since # None /\ h.afterFar) =>
                /\ k \in DOMAIN analyzer.states
                /\ analyzer.states[k].first_close_time = h.since
                /\ ProxCount(k) > 0
                       => ProxNow >= Val(h.since) + analyzer.min_duration_s

\* C3 witness: the pair had been close long enough to be warned about, was
\* seen too far, and is close again at t2 = now without a warning.
C3_Witness ==
    \E k \in PairKeys :
        LET h == prox_hist[k]
        IN  /\ h.since = Some(ProxNow) /\ h.afterFar /\ h.prior
            /\ analyzer.min_duration_s > 0
            /\ ProxCount(k) = 0

\* C4: clean-up.  When update returns, the keys of the state table are exactly
\* the pairs formed from the people and vehicles of that call; with an empty
\* people list or an empty vehicles list no warning is returned and the table
\* is empty.
C4_Cleanup ==
    /\ DOMAIN analyzer.states = Ids(prox_in.people) \X Ids(prox_in.vehicles)
    /\ (prox_in.people = <<>> \/ prox_in.vehicles = <<>>)
           => (prox_ret = <<>> /\ DOMAIN analyzer.states = {})

\* C4 witness: a pair that had a state (it was warned about) lost its vehicle
\* in the last call, while its person is still in the frame, and has no state.
C4_Witness ==
    \E k \in PairKeys :
        /\ prox_hist[k].lastw # None
        /\ k[1] \in Ids(prox_in.people)
        /\ k[2] \notin Ids(prox_in.vehicles)
        /\ k \notin DOMAIN analyzer.states

\* C5: re-alert after cooldown.  While a pair stays present and within the
\* threshold, after a warning at t1 an update with current_time < t1 +
\* cooldown_s returns no warning for it and the first update with
\* current_time >= t1 + cooldown_s returns one.
C5_ReAlertAfterCooldown ==
    [][\A k \in PairKeys :
          LET t1 == prox_hist[k].runw
              now == prox_in'.current_time
          IN  (prox_hist'[k].since # None /\ t1 # None) =>
                  IF now >= Val(t1) + analyzer.cooldown_s
                  THEN CountFor(k, prox_ret') = 1
                  ELSE CountFor(k, prox_ret') = 0]_vars

\* C5 witness: a second warning in the same run, cooldown_s > 0 after the first.
C5_Witness ==
    \E k \in PairKeys :
        LET h == prox_hist[k]
        IN  /\ h.since # None /\ h.runn = 2
            /\ analyzer.cooldown_s > 0
            /\ ProxCount(k) = 1

\* the analyzer holding only the state of pair k, and the frame holding only
\* the person and the vehicle of pair k
OnlyPair(self, k) ==
    [self EXCEPT !.states = [x \in DOMAIN self.states \cap {k} |-> self.states[x]]]

OnlyId(objs, id) == SelectSeq(objs, LAMBDA o : o.track_id = id)

WarningsFor(k, warnings) ==
    SelectSeq(warnings, LAMBDA w : w.person_id = k[1] /\ w.vehicle_id = k[2])

FallNow == fall_in.timestamp

FallCount(p) == FallCountFor(p, fall_ret.new_alerts)

\* C7: fall alert timing.  For a person with no earlier fall alert who has
\* been lying in every update since t0, no alert is returned while
\* timestamp - t0 < min_duration_s, exactly one is returned by the first
\* update with timestamp - t0 >= min_duration_s, and none after it, whatever
\* t0 and the timestamps are (a never-set last_alert_time does not delay it).
\* Stated for detectors with min_duration_s > 0, where the first such update
\* is a later one than the update at t0 that creates the state.
C7_FallAlertTiming ==
    \A p \in Persons :
        LET h == fall_hist[p]
        IN  (h.since # None /\ ~h.prior /\ detector.min_duration_s > 0) =>
                /\ (FallNow - Val(h.since) < detector.min_duration_s)
                       => FallCount(p) = 0
                /\ (FallNow - Val(h.since) >= detector.min_duration_s /\ ~h.qprev)
                       => FallCount(p) = 1
                /\ h.qprev => FallCount(p) = 0

\* C8: fall cooldown.  Two fall alerts for the same person are at least
\* cooldown_s apart, and one update returns at most one alert per person.
C8_FallCooldown ==
    \A p \in Persons :
        /\ FallCount(p) <= 1
        /\ (FallCount(p) > 0 /\ fall_hist[p].everw # None)
               => FallNow - Val(fall_hist[p].everw) >= detector.cooldown_s

\* C8 witness: a second alert for a person, with cooldown_s > 0.
C8_Witness ==
    \E p \in Persons :
        /\ FallCount(p) > 0
        /\ fall_hist[p].everw # None
        /\ detector.cooldown_s > 0

ZeroWidthIn(p, tracked_people) ==
    /\ p \in Ids(tracked_people)
    /\ ObjOf(tracked_people, p).bbox_xyxy[3] = ObjOf(tracked_people, p).bbox_xyxy[1]

\* C24: degenerate boxes.  A person whose box has width 0 has aspect ratio 0,
\* which is below 1/aspect_ratio_threshold: the update counts the person as
\* lying, and a fall state the person has is neither deleted nor reset (its
\* first_detected stays and it is updated to the timestamp of the call).
C24_DegenerateBoxIsLying ==
    [][\A p \in Persons :
          ZeroWidthIn(p, fall_in'.tracked_people) =>
              /\ p \in fall_ret'.currently_fallen
              /\ p \in DOMAIN detector.fall_states =>
                    /\ p \in DOMAIN detector'.fall_states
                    /\ detector'.fall_states[p].first_detected =
                           detector.fall_states[p].first_detected
                    /\ detector'.fall_states[p].last_detected = fall_in'.timestamp]_vars

\* C25: out-of-order timestamps are guarded.  When update is called with a
\* timestamp lower than that of an earlier call, no state stores a negative
\* duration and no returned alert carries one.
C25_NoNegativeDuration ==
    /\ \A p \in DOMAIN detector.fall_states : detector.fall_states[p].duration >= 0
    /\ \A i \in DOMAIN fall_ret.new_alerts : fall_ret.new_alerts[i][3] >= 0
    /\ \A i \in DOMAIN prox_ret : prox_ret[i].duration_s >= 0

\* C28: a fall state without alert is dropped at once.  An update in which
\* the person of a state with alerted = false is not lying deletes the state;
\* a state created by an update starts at that update's timestamp, so a state
\* that has not alerted starts with the current run of lying, and an alert
\* for it comes min_duration_s or more after the start of that run.
C28_UnalertedStateDropped ==
    [][\A p \in Persons :
          LET lying == LyingIn(p, fall_in'.tracked_people, detector.aspect_ratio_threshold)
              had == p \in DOMAIN detector.fall_states
              has == p \in DOMAIN detector'.fall_states
          IN  /\ (had /\ ~detector.fall_states[p].alerted /\ ~lying) => ~has
              /\ (~had /\ has) =>
                    /\ lying
                    /\ detector'.fall_states[p] = FallStateInit(p, fall_in'.timestamp)
                    /\ FallCountFor(p, fall_ret'.new_alerts) = 0
              /\ (has /\ ~detector'.fall_states[p].alerted) =>
                    /\ fall_hist'[p].since # None
                    /\ detector'.fall_states[p].first_detected = Val(fall_hist'[p].since)
              /\ (FallCountFor(p, fall_ret'.new_alerts) > 0) =>
                    /\ fall_hist'[p].since # None
                    /\ fall_in'.timestamp - Val(fall_hist'[p].since)
                           >= detector.min_duration_s]_vars

\* C28 witness: a person lies again after a state without alert was dropped:
\* the run of lying starts after the first call and the state starts with it.
C28_Witness ==
    \E p \in Persons :
        /\ p \in DOMAIN detector.fall_states
        /\ ~detector.fall_states[p].alerted
        /\ fall_hist[p].dropped
        /\ fall_hist[p].lastw = None
        /\ detector.fall_states[p].first_detected = FallNow
        /\ detector.min_duration_s > 0

\* C29: an alerted fall state is retained through flicker.  While its person
\* is not lying, an update with timestamp - last_detected <= cooldown_s keeps
\* the state as it is and the first update with timestamp - last_detected >
\* cooldown_s deletes it; if the person is lying again while the state is
\* retained, the state continues (first_detected unchanged, alerted true) and
\* no alert is returned.
C29_AlertedStateRetained ==
    [][\A p \in Persons :
          (p \in DOMAIN detector.fall_states /\ detector.fall_states[p].alerted) =>
              LET state == detector.fall_states[p]
                  lying == LyingIn(p, fall_in'.tracked_people,
                                   detector.aspect_ratio_threshold)
                  has == p \in DOMAIN detector'.fall_states
              IN  /\ (~lying /\ fall_in'.timestamp - state.last_detected <= detector.cooldown_s)
                        => has /\ detector'.fall_states[p] = state
                  /\ (~lying /\ fall_in'.timestamp - state.last_detected > detector.cooldown_s)
                        => ~has
                  /\ lying =>
                        /\ has
                        /\ detector'.fall_states[p].first_detected = state.first_detected
                        /\ detector'.fall_states[p].alerted
                        /\ FallCountFor(p, fall_ret'.new_alerts) = 0]_vars

\* C29 witness: a person whose state has alerted lies again after an update
\* in which the person was not lying, and the state is the one from before.
C29_Witness ==
    \E p \in Persons :
        /\ fall_hist[p].wasAlerted
        /\ fall_hist[p].since = Some(FallNow)
        /\ p \in DOMAIN detector.fall_states
        /\ detector.fall_states[p].alerted
        /\ detector.fall_states[p].first_detected < FallNow
        /\ detector.cooldown_s > 0

\* C30: at most one fall alert per fall state.  Once a state has alerted =
\* true, every update that leaves the state in place leaves alerted true and
\* returns no alert for its person, whatever the time since the alert.
C30_OneAlertPerState ==
    [][\A p \in Persons :
          (p \in DOMAIN detector.fall_states /\ detector.fall_states[p].alerted) =>
              /\ FallCountFor(p, fall_ret'.new_alerts) = 0
              /\ p \in DOMAIN detector'.fall_states =>
                    /\ detector'.fall_states[p].alerted
                    /\ detector'.fall_states[p].last_alert_time =
                           detector.fall_states[p].last_alert_time]_vars

\* C30 witness: a person whose state alerted earlier is still lying when
\* cooldown_s has elapsed since the alert, and no alert is returned.
C30_Witness ==
    \E p \in Persons :
        /\ p \in fall_ret.currently_fallen
        /\ fall_hist[p].wasAlerted
        /\ detector.cooldown_s > 0
        /\ detector.fall_states[p].duration >= detector.min_duration_s
        /\ FallNow - detector.fall_states[p].last_alert_time >= detector.cooldown_s
        /\ FallCount(p) = 0

(***************************************************************************)
(* HeadcountMonitor.  One tick of the model is 300 s.                      *)
(***************************************************************************)
\* self.alert_cooldown_s = 600.0: two ticks
alert_cooldown_s == 2

\* HeadcountMonitor.__init__; now is the value of time.monotonic()
HeadcountMonitorInit(expected_active_count, check_interval_s, sample_window_s, now) ==
    [expected_active_count |-> expected_active_count,
     check_interval_s |-> check_interval_s,
     sample_window_s |-> sample_window_s,
     count_history |-> <<>>,
     last_check_time |-> now,
     last_alert_time |-> 0,
     alert_cooldown_s |-> alert_cooldown_s]

\* a filter that keeps every entry
MutKeepAll(count_history, cutoff_time) == count_history

\* a filter that drops the entry at the cutoff
MutKeepRecentStrict(count_history, cutoff_time) ==
    SelectSeq(count_history, LAMBDA e : e[1] > cutoff_time)

\* lines 68-70: [(t, c) for t, c in self.count_history if t >= cutoff_time]
KeepRecent(count_history, cutoff_time) ==
    SelectSeq(count_history, LAMBDA e : e[1] >= cutoff_time)

\* HeadcountMonitor.record_count
record_count(self, count, timestamp) ==
    [self EXCEPT !.count_history =
        KeepRecent(Append(self.count_history, <<timestamp, count>>),
                   timestamp - self.sample_window_s)]

\* number of occurrences of v in a list
Occurrences(counts, v) == Cardinality({i \in DOMAIN counts : counts[i] = v})

\* index of the first occurrence of v in a list that holds it
FirstIndex(counts, v) ==
    CHOOSE i \in DOMAIN counts :
        counts[i] = v /\ \A j \in DOMAIN counts : counts[j] = v => i <= j

\* a mode that is the latest sample
MutLatestCount(counts) == counts[Len(counts)]

\* a mode that, among the most frequent counts, is the one met last
MutLastMostCommon(counts) ==
    CHOOSE v \in Range(counts) :
        \A w \in Range(counts) :
            \/ Occurrences(counts, w) < Occurrences(counts, v)
            \/ /\ Occurrences(counts, w) = Occurrences(counts, v)
               /\ FirstIndex(counts, w) <= FirstIndex(counts, v)

\* Counter(counts).most_common(1)[0][0] on a non-empty list: the Counter keeps
\* its keys in order of first occurrence and most_common(1) takes the first
\* key among those of the largest count
most_common_1(counts) ==
    CHOOSE v \in Range(counts) :
        \A w \in Range(counts) :
            \/ Occurrences(counts, w) < Occurrences(counts, v)
            \/ /\ Occurrences(counts, w) = Occurrences(counts, v)
               /\ FirstIndex(counts, v) <= FirstIndex(counts, w)

\* a should_check that wants more than the interval
MutShouldCheckStrict(self, current_time) ==
    (current_time - self.last_check_time) > self.check_interval_s

\* HeadcountMonitor.should_check
should_check(self, current_time) ==
    (current_time - self.last_check_time) >= self.check_interval_s

\* a cooldown test that never suppresses
MutInCooldownNever(self, current_time) == FALSE

\* lines 112-113: time_since_last_alert < self.alert_cooldown_s
InCooldown(self, current_time) ==
    current_time - self.last_alert_time < self.alert_cooldown_s

\* a "no samples" result that reports a mismatch
MutNoSamplesMismatch(self) == <<TRUE, 0, 0, self.expected_active_count>>

\* lines 96-97: return False, 0, 0, self.expected_active_count
NoSamplesResult(self) == <<FALSE, 0, 0, self.expected_active_count>>

\* HeadcountMonitor.check_headcount: the object after the call and the
\* returned tuple (has_mismatch, detected_count, mode_count, expected_count)
check_headcount(self, current_time) ==
    LET s1 == [self EXCEPT !.last_check_time = current_time]
        counts == [i \in DOMAIN self.count_history |-> self.count_history[i][2]]
    IN  IF self.count_history = <<>>
        THEN [self |-> s1, ret |-> NoSamplesResult(self)]
        ELSE
            LET mode_count == most_common_1(counts)
                current_count == counts[Len(counts)]
                has_mismatch == mode_count # self.expected_active_count
            IN  IF has_mismatch
                THEN IF InCooldown(self, current_time)
                     THEN [self |-> s1,
                           ret |-> <<FALSE, current_count, mode_count,
                                     self.expected_active_count>>]
                     ELSE [self |-> [s1 EXCEPT !.last_alert_time = current_time],
                           ret |-> <<has_mismatch, current_count, mode_count,
                                     self.expected_active_count>>]
                ELSE [self |-> s1,
                      ret |-> <<has_mismatch, current_count, mode_count,
                                self.expected_active_count>>]

(***************************************************************************)
(* Claims about HeadcountMonitor                                           *)
(***************************************************************************)
\* the counts of the samples of a list with timestamp >= cutoff
CountsSince(samples, cutoff) ==
    LET kept == SelectSeq(samples, LAMBDA e : e[1] >= cutoff)
    IN  [i \in DOMAIN kept |-> kept[i][2]]

\* the most frequent values of a list
MostFrequent(counts) ==
    {v \in Range(counts) :
        \A w \in Range(counts) : Occurrences(counts, w) <= Occurrences(counts, v)}

\* the mode is that of the list, or the 0 of "no samples" for an empty list
ModeOf(mode, counts) ==
    IF counts = <<>> THEN mode = 0 ELSE mode \in MostFrequent(counts)

\* timestamp of the latest record_count call
LastRecordTime == hc_recorded[Len(hc_recorded)][1]

\* C10 as claimed: the mode returned by check_headcount(now) is the most
\* frequent count among the recorded samples with timestamp >= now -
\* sample_window_s (when there is such a sample); older samples do not
\* influence it.
C10_ModeOverWindowAtCheck ==
    LET inWindow == CountsSince(hc_recorded,
                                hc_call.time - monitor.sample_window_s)
    IN  (hc_call.op = "check" /\ inWindow # <<>>)
            => hc_ret[3] \in MostFrequent(inWindow)

\* C10 as amended: the mode returned by check_headcount is the most frequent
\* count among the recorded samples with timestamp >= t - sample_window_s,
\* where t is the timestamp of the latest record_count call; older samples do
\* not influence it.
C10_ModeOverRetainedWindow ==
    hc_call.op = "check" =>
        IF hc_recorded = <<>> THEN hc_ret[3] = 0
        ELSE ModeOf(hc_ret[3],
                    CountsSince(hc_recorded, LastRecordTime - monitor.sample_window_s))

\* C10 witness: a check made after a sample fell out of the window, when the
\* most frequent counts of all recorded samples are not those of the window.
C10_Witness ==
    /\ hc_call.op = "check"
    /\ hc_recorded # <<>>
    /\ MostFrequent(CountsSince(hc_recorded, 0)) #
           MostFrequent(CountsSince(hc_recorded,
                                    LastRecordTime - monitor.sample_window_s))

\* the counts the monitor retains
RetainedCounts == [i \in DOMAIN monitor.count_history |-> monitor.count_history[i][2]]

\* C11: mismatch is decided on the mode.  A check reports has_mismatch = TRUE
\* only if the mode it returns is a most frequent retained count and differs
\* from expected_active_count; when expected_active_count is the one most
\* frequent retained count it reports FALSE, whatever the latest sample is.
C11_MismatchOnMode ==
    hc_call.op = "check" =>
        IF RetainedCounts = <<>> THEN ~hc_ret[1]
        ELSE /\ hc_ret[1] => /\ hc_ret[3] \in MostFrequent(RetainedCounts)
                             /\ hc_ret[3] # monitor.expected_active_count
             /\ MostFrequent(RetainedCounts) = {monitor.expected_active_count}
                    => ~hc_ret[1]

\* C11 witness: a check outside the alert cooldown reports no mismatch when
\* the mode is the expected count and the latest sample is not.
C11_Witness ==
    /\ hc_call.op = "check"
    /\ RetainedCounts # <<>>
    /\ MostFrequent(RetainedCounts) = {monitor.expected_active_count}
    /\ RetainedCounts[Len(RetainedCounts)] # monitor.expected_active_count
    /\ hc_ret[2] = RetainedCounts[Len(RetainedCounts)]
    /\ hc_call.time - monitor.last_alert_time >= monitor.alert_cooldown_s
    /\ ~hc_ret[1]

\* C12: check pacing.  should_check(now) is TRUE exactly when now -
\* last_check_time >= check_interval_s; every check_headcount(now) sets
\* last_check_time = now; a check made right after should_check returned TRUE
\* for its timestamp is at least check_interval_s after the check before it.
C12_CheckPacing ==
    [][/\ hc_call'.op = "should_check" =>
              (hc_should'[1] <=>
                  hc_call'.time - monitor.last_check_time >= monitor.check_interval_s)
       /\ hc_call'.op = "check" => monitor'.last_check_time = hc_call'.time
       /\ (hc_call'.op = "check" /\ hc_obs'.driven) =>
              hc_call'.time - Val(hc_obs.last) >= monitor.check_interval_s]_vars

\* C12 witness: a second check, made right after should_check returned TRUE,
\* that reports a mismatch.
C12_Witness ==
    /\ hc_call.op = "check"
    /\ hc_obs.driven
    /\ hc_ret[1]
    /\ monitor.last_check_time = hc_call.time

\* C13: alert cooldown.  A check that finds mode # expected while now -
\* last_alert_time < alert_cooldown_s returns has_mismatch = FALSE with the
\* current and mode counts and leaves last_alert_time unchanged;
\* last_alert_time changes only in a check that returns TRUE; two checks that
\* return TRUE are at least alert_cooldown_s apart.
C13_AlertCooldown ==
    [][/\ (/\ hc_call'.op = "check"
           /\ monitor.count_history # <<>>
           /\ hc_ret'[3] # monitor.expected_active_count
           /\ hc_call'.time - monitor.last_alert_time < monitor.alert_cooldown_s)
              => /\ ~hc_ret'[1]
                 /\ hc_ret'[2] = RetainedCounts[Len(RetainedCounts)]
                 /\ hc_ret'[3] \in MostFrequent(RetainedCounts)
                 /\ monitor'.last_alert_time = monitor.last_alert_time
       /\ monitor'.last_alert_time # monitor.last_alert_time
              => hc_call'.op = "check" /\ hc_ret'[1]
       /\ (hc_call'.op = "check" /\ hc_ret'[1] /\ hc_obs.alert # None)
              => hc_call'.time - Val(hc_obs.alert) >= monitor.alert_cooldown_s]_vars

\* C13 witness: after a check that returned TRUE, a later check finds a
\* mismatching mode inside the cooldown and returns FALSE.
C13_Witness ==
    /\ hc_call.op = "check"
    /\ hc_obs.alert # None
    /\ hc_call.time > Val(hc_obs.alert)
    /\ RetainedCounts # <<>>
    /\ hc_ret[3] # monitor.expected_active_count
    /\ ~hc_ret[1]

\* C14: no samples.  With no recorded samples check_headcount returns
\* (FALSE, 0, 0, expected_active_count), whatever the expected count, and
\* leaves last_alert_time unchanged.
C14_NoSamples ==
    [][(hc_call'.op = "check" /\ monitor.count_history = <<>>)
          => /\ hc_ret' = <<FALSE, 0, 0, monitor.expected_active_count>>
             /\ monitor'.last_alert_time = monitor.last_alert_time]_vars

\* C14 witness: a check with no samples, an expected count other than 0 and
\* the alert cooldown over.
C14_Witness ==
    /\ hc_call.op = "check"
    /\ hc_recorded = <<>>
    /\ monitor.expected_active_count # 0
    /\ hc_call.time - monitor.last_alert_time >= monitor.alert_cooldown_s
    /\ hc_ret = <<FALSE, 0, 0, monitor.expected_active_count>>

\* C19: determinism under injected timestamps.  Two monitors constructed
\* with the same arguments and given the same calls return the same results
\* from should_check and from check_headcount, whatever the clock read when
\* each was constructed.
C19_SameCallsSameResults ==
    [][/\ hc_call'.op = "should_check" => hc_should'[1] = hc_should'[2]
       /\ hc_call'.op = "check" =>
              hc_ret' = check_headcount(monitor2, hc_call'.time).ret]_vars

\* C32: headcount window retention.  With timestamps that do not decrease,
\* after record_count(count, now) the retained samples are the recorded
\* samples from some point on, in recording order: those before that point
\* have timestamp < now - sample_window_s, those retained have timestamp >=
\* now - sample_window_s (one at the cutoff is kept), the last is (now, count).
C32_WindowRetention ==
    hc_call.op = "record" =>
        LET now == hc_call.time
            cutoff == now - monitor.sample_window_s
            n == Len(hc_recorded) - Len(monitor.count_history)
        IN  /\ n >= 0
            /\ monitor.count_history = SubSeq(hc_recorded, n + 1, Len(hc_recorded))
            /\ \A i \in 1..n : hc_recorded[i][1] < cutoff
            /\ \A i \in DOMAIN monitor.count_history :
                  monitor.count_history[i][1] >= cutoff
            /\ monitor.count_history # <<>>
            /\ monitor.count_history[Len(monitor.count_history)] =
                   hc_recorded[Len(hc_recorded)]
            /\ hc_recorded[Len(hc_recorded)][1] = now

\* C32 witness: a record_count after which a sample at the cutoff is retained
\* and an older one is not.
C32_Witness ==
    /\ hc_call.op = "record"
    /\ monitor.sample_window_s > 0
    /\ Len(monitor.count_history) < Len(hc_recorded)
    /\ monitor.count_history[1][1] = hc_call.time - monitor.sample_window_s

\* C33: headcount mode tie-break.  With retained samples, the mode returned
\* by check_headcount is a most frequent retained count and, among the most
\* frequent ones, the one whose first retained occurrence comes first; the
\* returned current count is the count of the last retained sample.
C33_ModeTieBreak ==
    (hc_call.op = "check" /\ RetainedCounts # <<>>) =>
        /\ hc_ret[3] \in MostFrequent(RetainedCounts)
        /\ \A w \in MostFrequent(RetainedCounts) :
              FirstIndex(RetainedCounts, hc_ret[3]) <= FirstIndex(RetainedCounts, w)
        /\ hc_ret[2] = RetainedCounts[Len(RetainedCounts)]

\* C33 witness: a check with two most frequent counts, the mode being the
\* first retained sample and not the last.
C33_Witness ==
    /\ hc_call.op = "check"
    /\ RetainedCounts # <<>>
    /\ Cardinality(MostFrequent(RetainedCounts)) = 2
    /\ hc_ret[3] = RetainedCounts[1]
    /\ hc_ret[3] # hc_ret[2]

\* C40: the first headcount mismatch is surfaced.  A check_headcount that
\* finds mode # expected on a monitor that has returned has_mismatch = TRUE
\* at no earlier check returns has_mismatch = TRUE, whatever its timestamp:
\* once a check has found a mismatch, some check has returned TRUE.
C40_FirstMismatchSurfaced ==
    (/\ hc_call.op = "check"
     /\ RetainedCounts # <<>>
     /\ hc_ret[3] # monitor.expected_active_count) => hc_obs.alert # None

(***************************************************************************)
(* VehicleRegistry.  last_seen (a wall-clock string no decision reads) is   *)
(* left out of the records.                                                *)
(***************************************************************************)
\* self.next_id = 1000
FirstRuntimeId == 1000

\* "best_dist < 500": the matching radius in pixels
MatchRadius == 500

Labels == {"truck", "car"}

\* a Python tuple (x, y) and a Python list [x, y]: both are indexed alike,
\* and a tuple is never equal to a list
PyTuple(xy) == [py |-> "tuple", xy |-> xy]

PyList(xy) == [py |-> "list", xy |-> xy]

\* json.dump of an optional location: None becomes null, a tuple or a list
\* becomes an array
JsonDump(location) == IF location = None THEN None ELSE Some(Val(location).xy)

\* json.load of a null or an array: None, or a list
JsonLoad(value) == IF value = None THEN None ELSE Some(PyList(Val(value)))

\* the locations a detection can have, tuples as in the signature of
\* match_vehicle; (0,0)-(300,400) are 500 apart, (0,0)-(0,499) are 499 apart
Locations == {PyTuple(<<0, 0>>), PyTuple(<<300, 400>>), PyTuple(<<0, 499>>)}

\* VehicleEntry
VehicleEntry(id, label, status, location) ==
    [id |-> id, label |-> label, status |-> status, location |-> location]

\* the items a registry file can hold: JSON objects that have all of id,
\* label and status (location may be missing), and objects that lack one
FileItem(id, label, status, location) ==
    [id |-> id, label |-> label, status |-> status, location |-> location]

GoodItems ==
    {FileItem(Some(i), Some("truck"), Some("idle"), l) :
        i \in {7, FirstRuntimeId}, l \in {None, Some(<<0, 0>>)}}

BadItems ==
    {FileItem(None, Some("truck"), Some("idle"), None),
     FileItem(Some(8), None, Some("idle"), None),
     FileItem(Some(8), Some("truck"), None, None)}

\* an item that makes item["id"], item["label"] or item["status"] raise
Raises(item) == item.id = None \/ item.label = None \/ item.status = None

\* the lists of items of a readable file: at most MaxFileItems items, the ids
\* of the complete items distinct
FileLists ==
    {f \in UNION {[1..n -> GoodItems \cup BadItems] : n \in 0..MaxFileItems} :
        \A i, j \in DOMAIN f :
            (i # j /\ ~Raises(f[i]) /\ ~Raises(f[j])) => f[i].id # f[j].id}

\* what the constructor can find at registry_path
Files ==
    {[kind |-> "absent", items |-> <<>>], [kind |-> "unreadable", items |-> <<>>]}
        \cup {[kind |-> "list", items |-> f] : f \in FileLists}

\* VehicleRegistry.__init__ before self._load_registry()
VehicleRegistryNew ==
    [vehicles |-> <<>>, label_to_id |-> <<>>, next_id |-> FirstRuntimeId]

\* self.vehicles[id] = entry
PutVehicle(vehicles, id, entry) ==
    [k \in DOMAIN vehicles \cup {id} |-> IF k = id THEN entry ELSE vehicles[k]]

\* "if label not in self.label_to_id: self.label_to_id[label] = []" and
\* "self.label_to_id[label].append(id)"
IndexLabel(label_to_id, label, id) ==
    [k \in DOMAIN label_to_id \cup {label} |->
        IF k = label
        THEN Append(IF label \in DOMAIN label_to_id THEN label_to_id[label] ELSE <<>>, id)
        ELSE label_to_id[k]]

\* the loop "for item in data" from its i-th item on; acc = [self, raised]
RECURSIVE LoadItems(_, _, _)
LoadItems(acc, items, i) ==
    IF i > Len(items) THEN acc
    ELSE IF Raises(items[i]) THEN [acc EXCEPT !.raised = TRUE]
    ELSE LET entry == VehicleEntry(Val(items[i].id), Val(items[i].label),
                                   Val(items[i].status), JsonLoad(items[i].location))
         IN  LoadItems([acc EXCEPT
                           !.self.vehicles = PutVehicle(@, entry.id, entry),
                           !.self.label_to_id = IndexLabel(@, entry.label, entry.id)],
                       items, i + 1)

\* the largest key of a non-empty vehicles table
MaxId(vehicles) == CHOOSE m \in DOMAIN vehicles : \A k \in DOMAIN vehicles : k <= m

\* "if self.vehicles: self.next_id = max(self.vehicles.keys()) + 1"
UpdateNextId(self) ==
    IF DOMAIN self.vehicles # {}
    THEN [self EXCEPT !.next_id = MaxId(self.vehicles) + 1]
    ELSE self

\* VehicleRegistry._load_registry on the registry made by __init__: the
\* exception of open, json.load or an item is caught after the items before
\* it were stored, and skips the update of next_id
load_registry(self, file) ==
    IF file.kind = "absent" \/ file.kind = "unreadable" THEN self
    ELSE LET acc == LoadItems([self |-> self, raised |-> FALSE], file.items, 1)
         IN  IF acc.raised THEN acc.self ELSE UpdateNextId(acc.self)

\* the load did not complete
LoadFailed(file) ==
    \/ file.kind = "unreadable"
    \/ file.kind = "list" /\ \E i \in DOMAIN file.items : Raises(file.items[i])

\* square of the distance of lines 122-125
Dist2(a, b) ==
    (a.xy[1] - b.xy[1]) * (a.xy[1] - b.xy[1]) + (a.xy[2] - b.xy[2]) * (a.xy[2] - b.xy[2])

\* the loop "for vid in candidates" from its i-th candidate on;
\* best = [id, dist2], id = None while no candidate had a location.  The
\* distances are compared by their squares.
RECURSIVE BestCandidate(_, _, _, _, _)
BestCandidate(self, candidates, location, best, i) ==
    IF i > Len(candidates) THEN best
    ELSE LET vehicle == self.vehicles[candidates[i]]
             d == Dist2(location, Val(vehicle.location))
         IN  IF vehicle.location # None /\ (best.id = None \/ d < best.dist2)
             THEN BestCandidate(self, candidates, location,
                                [id |-> Some(candidates[i]), dist2 |-> d], i + 1)
             ELSE BestCandidate(self, candidates, location, best, i + 1)

\* VehicleRegistry.update_vehicle with a location
update_vehicle(self, vehicle_id, location) ==
    IF vehicle_id \in DOMAIN self.vehicles
    THEN [self EXCEPT !.vehicles[vehicle_id].location = Some(location)]
    ELSE self

\* "best_dist < 500"
WithinRadius(dist2) == dist2 < MatchRadius * MatchRadius

\* lines 136-156: create new runtime entry
CreateVehicle(self, label, location) ==
    LET new_id == self.next_id
        entry == VehicleEntry(new_id, label, "active", Some(location))
    IN  [self |-> [vehicles |-> PutVehicle(self.vehicles, new_id, entry),
                   label_to_id |-> IndexLabel(self.label_to_id, label, new_id),
                   next_id |-> self.next_id + 1],
         ret |-> new_id]

\* VehicleRegistry.match_vehicle: the object after the call and the returned id
match_vehicle(self, label, location) ==
    LET best == IF label \in DOMAIN self.label_to_id
                THEN BestCandidate(self, self.label_to_id[label], location,
                                   [id |-> None, dist2 |-> 0], 1)
                ELSE [id |-> None, dist2 |-> 0]
    IN  IF best.id # None /\ WithinRadius(best.dist2)
        THEN [self |-> update_vehicle(self, Val(best.id), location),
              ret |-> Val(best.id)]
        ELSE CreateVehicle(self, label, location)

(***************************************************************************)
(* Claims about VehicleRegistry                                            *)
(***************************************************************************)
\* ids of the records of a registry with the label and a known location
SameLabelLocated(self, label) ==
    {v \in DOMAIN self.vehicles :
        self.vehicles[v].label = label /\ self.vehicles[v].location # None}

\* those of them at a distance below the matching radius
SameLabelNear(self, label, location) ==
    {v \in SameLabelLocated(self, label) :
        Dist2(location, Val(self.vehicles[v].location)) < MatchRadius * MatchRadius}

\* those of them at the smallest distance
SameLabelNearest(self, label, location) ==
    {v \in SameLabelLocated(self, label) :
        \A w \in SameLabelLocated(self, label) :
            Dist2(location, Val(self.vehicles[v].location))
                <= Dist2(location, Val(self.vehicles[w].location))}

\* C15: identity reuse.  When a record with the label and a known location
\* is nearer than the matching radius, match_vehicle returns the id of a
\* nearest such record, sets that record's location to the given one and
\* creates no record; a call with the label and location of the call before
\* it returns the same id.
C15_IdentityReuse ==
    [][reg_call'.op = "match" =>
        /\ SameLabelNear(registry, reg_call'.label, reg_call'.location) # {}
              => /\ reg_ret' \in SameLabelNearest(registry, reg_call'.label,
                                                  reg_call'.location)
                 /\ registry'.vehicles[reg_ret'].location = Some(reg_call'.location)
                 /\ DOMAIN registry'.vehicles = DOMAIN registry.vehicles
                 /\ registry'.next_id = registry.next_id
        /\ (/\ reg_call.op = "match"
            /\ reg_call'.label = reg_call.label
            /\ reg_call'.location = reg_call.location)
              => reg_ret' = reg_ret]_vars

\* C16: identity creation.  When no record with the label and a known
\* location is nearer than the matching radius, match_vehicle adds exactly
\* one record, with a new id, status "active" and the given label and
\* location, puts the id in the label's index and returns it; the record
\* whose id is returned never has another label.
C16_IdentityCreation ==
    reg_call.op = "match" =>
        /\ SameLabelNear(reg_before, reg_call.label, reg_call.location) = {}
              => /\ reg_ret \notin DOMAIN reg_before.vehicles
                 /\ DOMAIN registry.vehicles = DOMAIN reg_before.vehicles \cup {reg_ret}
                 /\ registry.vehicles[reg_ret] =
                        VehicleEntry(reg_ret, reg_call.label, "active",
                                     Some(reg_call.location))
                 /\ \A v \in DOMAIN reg_before.vehicles :
                        registry.vehicles[v] = reg_before.vehicles[v]
                 /\ reg_call.label \in DOMAIN registry.label_to_id
                 /\ reg_ret \in Range(registry.label_to_id[reg_call.label])
        /\ reg_ret \in DOMAIN reg_before.vehicles
              => reg_before.vehicles[reg_ret].label = reg_call.label

\* the last match_vehicle call took its id from next_id
Allocated == reg_call.op = "match" /\ registry.next_id # reg_before.next_id

\* C17: id uniqueness.  Whatever the load did, an id that match_vehicle
\* allocates is not the id of a record of the registry and is greater than
\* all of them, and the next id to allocate is greater still.
C17_FreshIds ==
    Allocated =>
        /\ reg_ret \notin DOMAIN reg_before.vehicles
        /\ \A v \in DOMAIN reg_before.vehicles : v < reg_ret
        /\ registry.next_id > reg_ret

\* C18: failed load.  When the load fails, for an unreadable file or for an
\* item that lacks id, label or status, the registry starts with no records,
\* an empty label index and next_id at its initial value.
C18_FailedLoadStartsEmpty ==
    (reg_call.op = "load" /\ LoadFailed(reg_file)) =>
        /\ DOMAIN registry.vehicles = {}
        /\ DOMAIN registry.label_to_id = {}
        /\ registry.next_id = FirstRuntimeId

(***************************************************************************)
(* VehicleRegistry.save_registry.  The call is modelled by its effects on   *)
(* the file: open(registry_path, "w") empties it, json.dump writes the     *)
(* text piece by piece, leaving the with block closes it.                  *)
(***************************************************************************)
\* the JSON object save_registry makes of a vehicle
SavedItem(vehicle) ==
    FileItem(Some(vehicle.id), Some(vehicle.label), Some(vehicle.status),
             JsonDump(vehicle.location))

\* the list "data" of save_registry; the model keeps the vehicles by id
SavedData(self) ==
    [i \in DOMAIN Sorted(DOMAIN self.vehicles) |->
        SavedItem(self.vehicles[Sorted(DOMAIN self.vehicles)[i]])]

\* a file that holds the complete JSON text of a list
ListFile(items) == [kind |-> "list", items |-> items]

\* a file that holds the first n items of the JSON text of a list and lacks
\* the end of the text: json.load raises on it
PartialFile(items, n) == [kind |-> "unreadable", items |-> SubSeq(items, 1, n)]

\* no save_registry call in progress
SaveIdle(file) == [pc |-> "idle", data |-> <<>>, written |-> 0, durable |-> file, saves |-> 0]

\* C26: crash safety of the registry file.  If the process stops during a
\* save_registry that started with a file holding a complete list, the file
\* holds that list or the complete new list, and a registry constructed
\* afterwards loads what one of the two holds.
C26_CrashSafeSave ==
    (save.pc \in {"crashed", "restarted"} /\ save.durable.kind = "list") =>
        /\ disk \in {save.durable, ListFile(save.data)}
        /\ save.pc = "restarted" =>
              registry \in {load_registry(VehicleRegistryNew, save.durable),
                            load_registry(VehicleRegistryNew, ListFile(save.data))}

\* C35: records without a location are ignored by matching.  match_vehicle
\* never returns the id of a record whose location is unknown, and when no
\* record with the label has a location it returns the id of a record it
\* creates, with the given label and location.
C35_UnlocatedRecordsIgnored ==
    reg_call.op = "match" =>
        /\ reg_ret \in DOMAIN registry.vehicles
        /\ reg_ret \in DOMAIN reg_before.vehicles =>
              reg_before.vehicles[reg_ret].location # None
        /\ SameLabelLocated(reg_before, reg_call.label) = {} =>
              /\ reg_ret \notin DOMAIN reg_before.vehicles
              /\ registry.vehicles[reg_ret].label = reg_call.label
              /\ registry.vehicles[reg_ret].location = Some(reg_call.location)

\* the number of times the id stands in the lists of the label index
IndexCount(self, id) ==
    Cardinality({<<l, i>> \in UNION {{l} \X DOMAIN self.label_to_id[l] :
                                        l \in DOMAIN self.label_to_id} :
                    self.label_to_id[l][i] = id})

\* every record's id stands once in the index, in the list of its label
IndexListsRecords(self) ==
    \A v \in DOMAIN self.vehicles :
        /\ IndexCount(self, v) = 1
        /\ self.vehicles[v].label \in DOMAIN self.label_to_id
        /\ v \in Range(self.label_to_id[self.vehicles[v].label])

\* C34: registry save/load round trip.  A registry constructed on the path
\* after save_registry has the records of the saved registry, each with the
\* same id, label, status and location, an index that lists each id under
\* its label, and, if it has records, next_id = largest id + 1.
C34_SaveLoadRoundTrip ==
    reg_call.op = "reload" =>
        /\ registry.vehicles = reg_before.vehicles
        /\ IndexListsRecords(registry)
        /\ DOMAIN registry.vehicles # {} =>
              registry.next_id = MaxId(registry.vehicles) + 1

\* C37: label index consistency.  After the load and any match_vehicle
\* calls every record's id stands exactly once in the label index, in the
\* list of the record's label, and every id of the index is the id of a
\* record with that label.
C37_LabelIndexConsistent ==
    /\ IndexListsRecords(registry)
    /\ \A l \in DOMAIN registry.label_to_id :
          \A i \in DOMAIN registry.label_to_id[l] :
              /\ registry.label_to_id[l][i] \in DOMAIN registry.vehicles
              /\ registry.vehicles[registry.label_to_id[l][i]].label = l

\* C38: frame of match_vehicle.  A call that returns the id of an existing
\* record changes of that record only the location, and leaves next_id, the
\* label index and the other records as they were; a call that returns a
\* new id leaves the existing records as they were and adds one to next_id;
\* no call removes a record.
C38_MatchVehicleFrame ==
    [][reg_call'.op = "match" =>
        /\ DOMAIN registry.vehicles \subseteq DOMAIN registry'.vehicles
        /\ reg_ret' \in DOMAIN registry.vehicles =>
              /\ DOMAIN registry'.vehicles = DOMAIN registry.vehicles
              /\ \A v \in DOMAIN registry.vehicles \ {reg_ret'} :
                    registry'.vehicles[v] = registry.vehicles[v]
              /\ registry'.vehicles[reg_ret'].id = registry.vehicles[reg_ret'].id
              /\ registry'.vehicles[reg_ret'].label = registry.vehicles[reg_ret'].label
              /\ registry'.vehicles[reg_ret'].status = registry.vehicles[reg_ret'].status
              /\ registry'.next_id = registry.next_id
              /\ registry'.label_to_id = registry.label_to_id
        /\ reg_ret' \notin DOMAIN registry.vehicles =>
              /\ \A v \in DOMAIN registry.vehicles :
                    registry'.vehicles[v] = registry.vehicles[v]
              /\ registry'.next_id = registry.next_id + 1]_vars

(***************************************************************************)
(* ConnectionManager (src/src/server.py).  broadcast is a coroutine: while *)
(* it waits in "await connection.send_json(message)" the event loop runs   *)
(* the websocket_endpoint coroutines, which connect and disconnect.        *)
(***************************************************************************)
\* the WebSockets of the model
WebSockets == {1, 2, 3}

\* ConnectionManager.__init__
ConnectionManagerInit == [active_connections |-> <<>>]

\* no broadcast call in progress; sent lists the connections whose send_json
\* the call has awaited, in order
BroadcastIdle ==
    [pc |-> "idle", i |-> 0, conn |-> 0, disconnected |-> <<>>,
     start |-> <<>>, sent |-> <<>>, received |-> {}, failed |-> {}, calls |-> 0]

\* self.active_connections.remove(websocket): the first occurrence goes
RemoveFirst(xs, x) ==
    LET k == CHOOSE j \in DOMAIN xs : xs[j] = x /\ \A m \in 1..(j - 1) : xs[m] # x
    IN  [j \in 1..(Len(xs) - 1) |-> IF j < k THEN xs[j] ELSE xs[j + 1]]

\* ConnectionManager.disconnect
disconnect(self, websocket) ==
    IF websocket \in Range(self.active_connections)
    THEN [self EXCEPT !.active_connections = RemoveFirst(@, websocket)]
    ELSE self

\* ConnectionManager.connect, after websocket.accept()
connect(self, websocket) ==
    [self EXCEPT !.active_connections = Append(@, websocket)]

\* "for conn in disconnected: self.disconnect(conn)" from the k-th on
RECURSIVE DisconnectAll(_, _, _)
DisconnectAll(self, disconnected, k) ==
    IF k > Len(disconnected) THEN self
    ELSE DisconnectAll(disconnect(self, disconnected[k]), disconnected, k + 1)

\* the for loop of broadcast takes its next element: the list iterator holds
\* the index i and reads the list as it is now.  With an element left the
\* coroutine waits in send_json; without, it cleans up and returns.
BroadcastAdvance(self, b) ==
    IF b.i < Len(self.active_connections)
    THEN [self |-> self,
          b |-> [b EXCEPT !.pc = "await", !.conn = self.active_connections[b.i + 1],
                          !.sent = Append(@, self.active_connections[b.i + 1]),
                          !.i = b.i + 1]]
    ELSE [self |-> DisconnectAll(self, b.disconnected, 1),
          b |-> [b EXCEPT !.pc = "done", !.conn = 0]]

\* C27: subscriber drop on failure.  When a broadcast has returned, every
\* connection whose send failed is out of active_connections, and every
\* connection that was in the list when the broadcast started and is still
\* in it has received the message.
C27_BroadcastReachesOthers ==
    bcast.pc = "done" =>
        /\ \A c \in bcast.failed : c \notin Range(conn_manager.active_connections)
        /\ \A c \in Range(bcast.start) \cap Range(conn_manager.active_connections) :
              c \in bcast.received

\* the number of send_json calls the broadcast made on the connection
SendsTo(b, c) == Cardinality({k \in DOMAIN b.sent : b.sent[k] = c})

\* C39: broadcast under concurrent connect and disconnect.  When a broadcast
\* has returned, every connection that was in active_connections from its
\* start to its return was sent the message exactly once, and no
\* connection was sent it twice, whatever connected or disconnected while
\* the broadcast waited.
C39_EachStayingConnectionSentOnce ==
    bcast.pc = "done" =>
        /\ \A c \in Range(bcast.start) \cap Range(conn_manager.active_connections) :
              SendsTo(bcast, c) = 1
        /\ \A c \in WebSockets : SendsTo(bcast, c) <= 1

(***************************************************************************)
(* AlertManager.  An event is a function from field names to values; the   *)
(* keyword arguments of a constructor call are one too.                    *)
(***************************************************************************)
\* self.max_recent = 100
max_recent == 100

EventClasses == {"ProximityEvent", "FallEvent", "HeadcountMismatchEvent"}

\* the fields of class Event: none has a default
EventFields == {"type", "timestamp", "frame"}

\* the fields an event class adds to those of Event
OwnFields(cls) ==
    CASE cls = "ProximityEvent" ->
            {"person_id", "vehicle_id", "proximity_score", "duration_s",
             "person_center", "vehicle_center"}
      [] cls = "FallEvent" -> {"person_id", "location", "confidence"}
      [] cls = "HeadcountMismatchEvent" ->
            {"detected_count", "expected_count", "mode_count", "severity"}

\* the defaults an event class declares
Defaults(cls) ==
    CASE cls = "ProximityEvent" -> [type |-> "ProximityWarning"]
      [] cls = "FallEvent" -> [type |-> "PersonDown", confidence |-> 1]
      [] cls = "HeadcountMismatchEvent" ->
            [type |-> "HeadcountMismatch", severity |-> "High"]

\* cls(**kwargs) of a pydantic model: ValidationError when a field without a
\* default is not given, else the event with the defaults filled in
NewEvent(cls, kwargs) ==
    LET fields == EventFields \cup OwnFields(cls)
    IN  IF fields \ DOMAIN Defaults(cls) \subseteq DOMAIN kwargs
        THEN [raised |-> FALSE,
              event |-> [k \in fields |->
                            IF k \in DOMAIN kwargs THEN kwargs[k] ELSE Defaults(cls)[k]]]
        ELSE [raised |-> TRUE, event |-> <<>>]

\* AlertManager.__init__: events.ndjson is opened for appending, so the lines
\* it holds stay; the cache starts empty
AlertManagerInit(existing) == [log |-> existing, recent_events |-> <<>>, open |-> TRUE]

\* _log_event that rewrites the file with the new line
MutLogEventRewrites(self, event) ==
    [self EXCEPT !.log = <<event>>,
                 !.recent_events = Append(self.recent_events, event)]

\* _log_event that evicts the newest event of a full cache
MutLogEventEvictsNewest(self, event) ==
    [self EXCEPT !.log = Append(@, event),
                 !.recent_events = IF Len(@) >= max_recent
                                   THEN @ ELSE Append(@, event)]

\* AlertManager._log_event on an open log file
log_event(self, event) ==
    LET appended == Append(self.recent_events, event)
    IN  [self EXCEPT !.log = Append(@, event),
                     !.recent_events = IF Len(appended) > max_recent
                                       THEN Tail(appended) ELSE appended]

\* an emit method: construct the event, then _log_event; an exception of the
\* constructor leaves the manager as it was and reaches the caller
Emit(self, made) ==
    IF made.raised THEN [self |-> self, raised |-> TRUE]
    ELSE [self |-> log_event(self, made.event), raised |-> FALSE]

\* AlertManager.emit_proximity_warning
emit_proximity_warning(self, warning, frame_number, now) ==
    Emit(self, NewEvent("ProximityEvent",
                        [timestamp |-> now,
                         frame |-> frame_number,
                         person_id |-> warning.person_id,
                         vehicle_id |-> warning.vehicle_id,
                         proximity_score |-> warning.proximity_score,
                         duration_s |-> warning.duration_s,
                         person_center |-> warning.person_center,
                         vehicle_center |-> warning.vehicle_center]))

\* AlertManager.emit_fall_event
emit_fall_event(self, person_id, location, frame_number, confidence, now) ==
    Emit(self, NewEvent("FallEvent",
                        [timestamp |-> now,
                         frame |-> frame_number,
                         person_id |-> person_id,
                         location |-> location,
                         confidence |-> confidence]))

\* AlertManager.emit_headcount_mismatch
emit_headcount_mismatch(self, detected_count, expected_count, mode_count, now) ==
    Emit(self, NewEvent("HeadcountMismatchEvent",
                        [timestamp |-> now,
                         detected_count |-> detected_count,
                         expected_count |-> expected_count,
                         mode_count |-> mode_count]))

\* xs[start:] of a Python list
PySliceFrom(xs, start) ==
    LET lo == IF start < 0
              THEN (IF Len(xs) + start < 0 THEN 0 ELSE Len(xs) + start)
              ELSE (IF start > Len(xs) THEN Len(xs) ELSE start)
    IN  SubSeq(xs, lo + 1, Len(xs))

\* AlertManager.get_recent_events
get_recent_events(self, limit) == PySliceFrom(self.recent_events, 0 - limit)

(***************************************************************************)
(* Claims about AlertManager                                               *)
(***************************************************************************)
\* the type an emit method gives its record
TypeOf(op) ==
    CASE op = "emit_proximity_warning" -> "ProximityWarning"
      [] op = "emit_fall_event" -> "PersonDown"
      [] op = "emit_headcount_mismatch" -> "HeadcountMismatch"

\* the fields of a record that are particular to its type
SpecificFields(op) ==
    CASE op = "emit_proximity_warning" ->
            {"person_id", "vehicle_id", "proximity_score", "duration_s",
             "person_center", "vehicle_center"}
      [] op = "emit_fall_event" -> {"person_id", "location"}
      [] op = "emit_headcount_mismatch" ->
            {"detected_count", "expected_count", "mode_count"}

\* C20: every alert becomes one sink record.  Each emit call on an open
\* AlertManager returns without an exception and appends exactly one record
\* to the log, with the type of the call, a timestamp, a frame number and
\* the fields of its type.
C20_OneRecordPerAlert ==
    [][am_calls' # am_calls =>
        /\ ~am_call'.raised
        /\ Len(alert_manager'.log) = Len(alert_manager.log) + 1
        /\ SubSeq(alert_manager'.log, 1, Len(alert_manager.log)) = alert_manager.log
        /\ LET rec == alert_manager'.log[Len(alert_manager'.log)]
           IN  /\ {"type", "timestamp", "frame"} \cup SpecificFields(am_call'.op)
                      \subseteq DOMAIN rec
               /\ rec["type"] = TypeOf(am_call'.op)]_vars

\* the fields of line that asked names have the values asked gives them
Records(line, asked) == \A k \in DOMAIN asked : k \in DOMAIN line /\ line[k] = asked[k]

\* C21: the event log is append-only with one record per emit.  After n emit
\* calls that returned, the log is the lines it held at construction followed
\* by exactly n lines, the i-th being the record of the i-th such emit.
C21_AppendOnlyLog ==
    /\ Len(alert_manager.log) = Len(am_before) + Len(am_emitted)
    /\ SubSeq(alert_manager.log, 1, Len(am_before)) = am_before
    /\ \A i \in DOMAIN am_emitted :
          Records(alert_manager.log[Len(am_before) + i], am_emitted[i])

C21_Witness ==
    /\ Len(am_before) > 0
    /\ Len(am_emitted) >= 2
    /\ am_emitted[1]["type"] # am_emitted[2]["type"]
    /\ am_calls > Len(am_emitted)

\* the smaller of two numbers
Min(a, b) == IF a < b THEN a ELSE b

\* the last k elements of a list
LastOf(xs, k) == SubSeq(xs, Len(xs) - k + 1, Len(xs))

\* C22: get_recent_events(limit) returns exactly the min(limit, n) most
\* recently emitted of the n cached events, for every limit >= 0; limit = 0
\* returns no event.
C22_RecentEventsLimit ==
    am_call.op = "get_recent_events" =>
        am_ret.events = LastOf(alert_manager.recent_events,
                               Min(am_ret.limit, Len(alert_manager.recent_events)))

\* C23: the cache of recent events is bounded and keeps the order of
\* emission.  It holds the last min(n, max_recent) of the n events emitted, in
\* the order of emission, and get_recent_events returns events in that order.
C23_BoundedOrderedCache ==
    LET n == Len(am_emitted)
        kept == Min(n, max_recent)
    IN  /\ Len(alert_manager.recent_events) = kept
        /\ \A i \in 1..kept :
              Records(alert_manager.recent_events[i], am_emitted[n - kept + i])
        /\ am_call.op = "get_recent_events" =>
              \E from \in 0..kept :
                  am_ret.events = SubSeq(alert_manager.recent_events, from + 1, kept)

C23_Witness ==
    /\ Len(am_emitted) > max_recent
    /\ am_call.op = "get_recent_events"
    /\ Len(am_ret.events) > 1
    /\ \E i \in DOMAIN alert_manager.recent_events :
          alert_manager.recent_events[i]["type"] # alert_manager.recent_events[1]["type"]

(***************************************************************************)
(* Actions                                                                 *)
(***************************************************************************)
\* the lists of tracked objects a frame can deliver: distinct track ids
PeopleLists ==
    UNION {{[i \in DOMAIN Sorted(S) |->
                [track_id |-> Sorted(S)[i], center |-> c[Sorted(S)[i]]]] :
               c \in [S -> PersonCenters]} : S \in SUBSET Persons}

VehicleLists ==
    {[i \in DOMAIN Sorted(S) |->
         [track_id |-> Sorted(S)[i], center |-> VehicleCenter]] :
        S \in SUBSET Vehicles}

ProxInit ==
    /\ analyzer \in {ProximityAnalyzerInit(th, md, cd) :
                        th \in PixelThresholds,
                        md \in 0..MaxMinDuration,
                        cd \in 0..MaxCooldown}
    /\ prox_in = [people |-> <<>>, vehicles |-> <<>>, current_time |-> 0]
    /\ prox_ret = <<>>
    /\ prox_hist = [k \in PairKeys |-> HistInit]

\* one call analyzer.update(people, vehicles, depth_map, current_time) with a
\* timestamp not lower than the previous call's
ProxUpdate ==
    \E people \in PeopleLists, vehicles \in VehicleLists,
       current_time \in prox_in.current_time .. MaxTime :
        \E r \in {update(analyzer, people, vehicles, current_time)} :
            /\ analyzer' = r.self
            /\ prox_ret' = r.warnings
            /\ prox_in' = [people |-> people, vehicles |-> vehicles,
                           current_time |-> current_time]
            /\ prox_hist' = [k \in PairKeys |->
                                Observe(prox_hist[k],
                                        Present(k, prox_in.people, prox_in.vehicles)
                                            /\ prox_hist[k].since = None,
                                        k, analyzer, people, vehicles,
                                        current_time, r.warnings)]
            /\ UNCHANGED <<fallVars, headVars, regVars, alertVars, saveVars, connVars>>

\* the lists of tracked people a frame can deliver to the fall detector
FallPeopleLists ==
    UNION {{[i \in DOMAIN Sorted(S) |->
                [track_id |-> Sorted(S)[i],
                 bbox_xyxy |-> b[Sorted(S)[i]],
                 center |-> <<(b[Sorted(S)[i]][1] + b[Sorted(S)[i]][3]) \div 2,
                              (b[Sorted(S)[i]][2] + b[Sorted(S)[i]][4]) \div 2>>]] :
               b \in [S -> PersonBoxes]} : S \in SUBSET Persons}

FallInit ==
    /\ detector \in {FallDetectorInit(th, md, cd) :
                        th \in AspectRatioThresholds,
                        md \in 0..FallMaxMinDuration,
                        cd \in 0..FallMaxCooldown}
    /\ fall_in = [tracked_people |-> <<>>, timestamp |-> 0]
    /\ fall_ret = [currently_fallen |-> {}, new_alerts |-> <<>>]
    /\ fall_hist = [p \in Persons |-> FallHistInit]

\* one call fall_detector.update(tracked_people, timestamp) with a timestamp
\* not lower than the previous call's
FallUpdate ==
    \E tracked_people \in FallPeopleLists,
       timestamp \in fall_in.timestamp .. FallMaxTime :
        \E r \in {fall_update(detector, tracked_people, timestamp)} :
            /\ detector' = r.self
            /\ fall_ret' = [currently_fallen |-> r.currently_fallen,
                            new_alerts |-> r.new_alerts]
            /\ fall_in' = [tracked_people |-> tracked_people,
                           timestamp |-> timestamp]
            /\ fall_hist' = [p \in Persons |->
                                FallObserve(fall_hist[p], p, detector, tracked_people,
                                            timestamp, r.new_alerts)]
            /\ UNCHANGED <<proxVars, headVars, regVars, alertVars, saveVars, connVars>>

\* one call fall_detector.update(tracked_people, timestamp) with any
\* timestamp, lower than the previous call's or not; the observer, which
\* records runs of calls in time order, is left alone
FallUpdateAnyTime ==
    \E tracked_people \in FallPeopleLists, timestamp \in 0 .. FallAnyMaxTime :
        \E r \in {fall_update(detector, tracked_people, timestamp)} :
            /\ detector' = r.self
            /\ fall_ret' = [currently_fallen |-> r.currently_fallen,
                            new_alerts |-> r.new_alerts]
            /\ fall_in' = [tracked_people |-> tracked_people,
                           timestamp |-> timestamp]
            /\ UNCHANGED <<fall_hist, proxVars, headVars, regVars, alertVars, saveVars, connVars>>

\* a tracker that is constructed with the parameters of its class's defaults
\* scaled to the model's ticks, and never called
ProxIdle ==
    /\ analyzer = ProximityAnalyzerInit(5, 1, 1)
    /\ prox_in = [people |-> <<>>, vehicles |-> <<>>, current_time |-> 0]
    /\ prox_ret = <<>>
    /\ prox_hist = [k \in PairKeys |-> HistInit]

FallIdle ==
    /\ detector = FallDetectorInit([num |-> 3, den |-> 2], 1, 2)
    /\ fall_in = [tracked_people |-> <<>>, timestamp |-> 0]
    /\ fall_ret = [currently_fallen |-> {}, new_alerts |-> <<>>]
    /\ fall_hist = [p \in Persons |-> FallHistInit]

\* the observer's record before any check
HeadObsInit == [last |-> None, driven |-> FALSE, alert |-> None]

\* two monitors constructed with the same arguments (check_interval_s is one
\* tick, as in the main loop); time.monotonic() reads 0 when the first is
\* constructed and 1 when the second is
HeadInit ==
    /\ \E ex \in ExpectedCounts, w \in SampleWindows :
        /\ monitor = HeadcountMonitorInit(ex, 1, w, 0)
        /\ monitor2 = HeadcountMonitorInit(ex, 1, w, 1)
    /\ hc_call = [op |-> "init", time |-> 0]
    /\ hc_ret = <<FALSE, 0, 0, monitor.expected_active_count>>
    /\ hc_recorded = <<>>
    /\ hc_should = <<FALSE, FALSE>>
    /\ hc_obs = HeadObsInit

HeadIdle ==
    /\ monitor = HeadcountMonitorInit(0, 1, 1, 0)
    /\ monitor2 = HeadcountMonitorInit(0, 1, 1, 0)
    /\ hc_call = [op |-> "init", time |-> 0]
    /\ hc_ret = <<FALSE, 0, 0, 0>>
    /\ hc_recorded = <<>>
    /\ hc_should = <<FALSE, FALSE>>
    /\ hc_obs = HeadObsInit

\* one call headcount_monitor.record_count(count, timestamp)
RecordCount ==
    /\ Len(hc_recorded) < HeadMaxSamples
    /\ \E count \in PeopleCounts, timestamp \in hc_call.time .. HeadMaxTime :
        /\ monitor' = record_count(monitor, count, timestamp)
        /\ monitor2' = record_count(monitor2, count, timestamp)
        /\ hc_recorded' = Append(hc_recorded, <<timestamp, count>>)
        /\ hc_call' = [op |-> "record", time |-> timestamp]
        /\ hc_should' = <<FALSE, FALSE>>
        /\ UNCHANGED <<hc_ret, hc_obs, proxVars, fallVars, regVars, alertVars, saveVars, connVars>>

\* one call headcount_monitor.should_check(current_time), made as in the main
\* loop with the timestamp of the call before it
ShouldCheck ==
    \E current_time \in {hc_call.time} :
        /\ hc_should' = <<should_check(monitor, current_time),
                          should_check(monitor2, current_time)>>
        /\ hc_call' = [op |-> "should_check", time |-> current_time]
        /\ UNCHANGED <<monitor, monitor2, hc_ret, hc_recorded, hc_obs,
                       proxVars, fallVars, regVars, alertVars, saveVars, connVars>>

\* one call headcount_monitor.check_headcount(current_time)
CheckHeadcount ==
    \E current_time \in hc_call.time .. HeadMaxTime :
        \E r \in {check_headcount(monitor, current_time)} :
            /\ monitor' = r.self
            /\ monitor2' = check_headcount(monitor2, current_time).self
            /\ hc_ret' = r.ret
            /\ hc_call' = [op |-> "check", time |-> current_time]
            /\ hc_obs' = [last |-> Some(current_time),
                          driven |-> /\ hc_obs.last # None
                                     /\ hc_call.op = "should_check"
                                     /\ hc_call.time = current_time
                                     /\ hc_should[1],
                          alert |-> IF r.ret[1] THEN Some(current_time)
                                    ELSE hc_obs.alert]
            /\ hc_should' = <<FALSE, FALSE>>
            /\ UNCHANGED <<hc_recorded, proxVars, fallVars, regVars, alertVars, saveVars, connVars>>

\* VehicleRegistry(registry_path), whatever the file holds
RegInit ==
    /\ reg_file \in Files
    /\ registry = load_registry(VehicleRegistryNew, reg_file)
    /\ reg_before = VehicleRegistryNew
    /\ reg_call = [op |-> "load", label |-> "", location |-> PyTuple(<<0, 0>>)]
    /\ reg_ret = 0
    /\ reg_calls = 0

\* a registry constructed with no file, and never called
RegIdle ==
    /\ reg_file = [kind |-> "absent", items |-> <<>>]
    /\ registry = VehicleRegistryNew
    /\ reg_before = VehicleRegistryNew
    /\ reg_call = [op |-> "load", label |-> "", location |-> PyTuple(<<0, 0>>)]
    /\ reg_ret = 0
    /\ reg_calls = 0

\* one call registry.match_vehicle(label, location)
MatchVehicle ==
    /\ reg_calls < MaxMatchCalls
    /\ save.pc = "idle"
    /\ \E label \in Labels, location \in Locations :
        \E r \in {match_vehicle(registry, label, location)} :
            /\ registry' = r.self
            /\ reg_ret' = r.ret
            /\ reg_before' = registry
            /\ reg_call' = [op |-> "match", label |-> label, location |-> location]
            /\ reg_calls' = reg_calls + 1
            /\ UNCHANGED <<reg_file, proxVars, fallVars, headVars, alertVars, saveVars, connVars>>

\* no save_registry call yet: the file is as the constructor found it
SaveInit ==
    /\ disk = reg_file
    /\ save = SaveIdle(reg_file)

\* the registry file of a registry that is never saved
SaveNone ==
    /\ disk = [kind |-> "absent", items |-> <<>>]
    /\ save = SaveIdle([kind |-> "absent", items |-> <<>>])

\* save_registry up to open(self.registry_path, "w"): the list is built and
\* the file is emptied
SaveOpen ==
    /\ save.pc = "idle"
    /\ save.saves < MaxSaves
    /\ save' = [pc |-> "writing", data |-> SavedData(registry), written |-> 0,
                durable |-> disk, saves |-> save.saves + 1]
    /\ disk' = PartialFile(SavedData(registry), 0)
    /\ UNCHANGED <<regVars, proxVars, fallVars, headVars, alertVars, connVars>>

\* json.dump writes the text of the next item to the file
SaveWrite ==
    /\ save.pc = "writing"
    /\ save.written < Len(save.data)
    /\ save' = [save EXCEPT !.written = @ + 1]
    /\ disk' = PartialFile(save.data, save.written + 1)
    /\ UNCHANGED <<regVars, proxVars, fallVars, headVars, alertVars, connVars>>

\* json.dump writes the end of the text and the with block closes the file
SaveClose ==
    /\ save.pc = "writing"
    /\ save.written = Len(save.data)
    /\ disk' = ListFile(save.data)
    /\ save' = [save EXCEPT !.pc = "idle", !.durable = ListFile(save.data)]
    /\ UNCHANGED <<regVars, proxVars, fallVars, headVars, alertVars, connVars>>

\* the process stops during save_registry
SaveCrash ==
    /\ save.pc = "writing"
    /\ save' = [save EXCEPT !.pc = "crashed"]
    /\ UNCHANGED <<disk, regVars, proxVars, fallVars, headVars, alertVars, connVars>>

\* the next run constructs VehicleRegistry(registry_path)
Restart ==
    /\ save.pc = "crashed"
    /\ save' = [save EXCEPT !.pc = "restarted"]
    /\ registry' = load_registry(VehicleRegistryNew, disk)
    /\ reg_file' = disk
    /\ reg_before' = VehicleRegistryNew
    /\ reg_call' = [op |-> "load", label |-> "", location |-> PyTuple(<<0, 0>>)]
    /\ UNCHANGED <<disk, reg_ret, reg_calls, proxVars, fallVars, headVars, alertVars, connVars>>

\* a registry constructed on the path after a save_registry of this one
\* has returned
Reload ==
    /\ save.pc = "idle"
    /\ save.saves > 0
    /\ disk = ListFile(SavedData(registry))
    /\ reg_call.op # "reload"
    /\ registry' = load_registry(VehicleRegistryNew, disk)
    /\ reg_file' = disk
    /\ reg_before' = registry
    /\ reg_call' = [op |-> "reload", label |-> "", location |-> PyTuple(<<0, 0>>)]
    /\ UNCHANGED <<disk, save, reg_ret, reg_calls, proxVars, fallVars, headVars, alertVars, connVars>>

\* ConnectionManager(), no WebSocket yet
ConnInit ==
    /\ conn_manager = ConnectionManagerInit
    /\ bcast = BroadcastIdle
    /\ ws_seen = {}

\* websocket_endpoint of a new WebSocket: manager.connect(websocket)
Connect ==
    \E websocket \in WebSockets \ ws_seen :
        /\ conn_manager' = connect(conn_manager, websocket)
        /\ ws_seen' = ws_seen \cup {websocket}
        /\ UNCHANGED <<bcast, proxVars, fallVars, headVars, regVars, alertVars, saveVars>>

\* websocket_endpoint of a connected WebSocket catches WebSocketDisconnect or
\* another exception: manager.disconnect(websocket)
EndpointDisconnect ==
    \E websocket \in ws_seen :
        /\ websocket \in Range(conn_manager.active_connections)
        /\ conn_manager' = disconnect(conn_manager, websocket)
        /\ UNCHANGED <<bcast, ws_seen, proxVars, fallVars, headVars, regVars, alertVars, saveVars>>

\* a call manager.broadcast(message) up to its first await, or to its return
\* when there is no connection
Broadcast ==
    /\ bcast.pc \in {"idle", "done"}
    /\ bcast.calls < MaxBroadcasts
    /\ IF conn_manager.active_connections = <<>>
       THEN /\ bcast' = [BroadcastIdle EXCEPT !.pc = "done", !.calls = bcast.calls + 1]
            /\ UNCHANGED conn_manager
       ELSE \E r \in {BroadcastAdvance(conn_manager,
                                        [BroadcastIdle EXCEPT
                                            !.start = conn_manager.active_connections,
                                            !.calls = bcast.calls + 1])} :
                /\ bcast' = r.b
                /\ conn_manager' = r.self
    /\ UNCHANGED <<ws_seen, proxVars, fallVars, headVars, regVars, alertVars, saveVars>>

\* "await connection.send_json(message)" returns or raises, and broadcast
\* runs to its next await or to its return
SendReturns ==
    /\ bcast.pc = "await"
    /\ \E ok \in BOOLEAN :
        \E r \in {BroadcastAdvance(conn_manager,
                      IF ok
                      THEN [bcast EXCEPT !.received = @ \cup {bcast.conn}]
                      ELSE [bcast EXCEPT !.disconnected = Append(@, bcast.conn),
                                         !.failed = @ \cup {bcast.conn}])} :
            /\ bcast' = r.b
            /\ conn_manager' = r.self
    /\ UNCHANGED <<ws_seen, proxVars, fallVars, headVars, regVars, alertVars, saveVars>>

\* a line written by an earlier run
OldLine ==
    [type |-> "PersonDown", timestamp |-> 0, frame |-> 9, person_id |-> 1,
     location |-> <<3, 4>>, confidence |-> 1]

\* what events.ndjson can hold when the manager is constructed
OldLogs == {<<>>, <<OldLine>>}

\* AlertManager(log_dir)
AlertInit ==
    \E existing \in OldLogs :
        /\ alert_manager = AlertManagerInit(existing)
        /\ am_call = [op |-> "init", raised |-> FALSE]
        /\ am_calls = 0
        /\ am_before = existing
        /\ am_emitted = <<>>
        /\ am_ret = [limit |-> 0, events |-> <<>>]
        /\ am_script = <<>>

\* AlertManager(log_dir) on a new log directory, and no call
AlertIdle ==
    /\ alert_manager = AlertManagerInit(<<>>)
    /\ am_call = [op |-> "init", raised |-> FALSE]
    /\ am_calls = 0
    /\ am_before = <<>>
    /\ am_emitted = <<>>
    /\ am_ret = [limit |-> 0, events |-> <<>>]
    /\ am_script = <<>>

\* the emit methods
EmitOps == {"emit_proximity_warning", "emit_fall_event", "emit_headcount_mismatch"}

\* the emit methods the frame loop calls in turn
Scripts == {<<a, b>> : a \in EmitOps, b \in EmitOps}

\* AlertManager(log_dir) on a new log directory, before a long run
ScriptedInit ==
    \E script \in Scripts :
        /\ alert_manager = AlertManagerInit(<<>>)
        /\ am_call = [op |-> "init", raised |-> FALSE]
        /\ am_calls = 0
        /\ am_before = <<>>
        /\ am_emitted = <<>>
        /\ am_ret = [limit |-> 0, events |-> <<>>]
        /\ am_script = script

\* the frame numbers and wall-clock readings of the emit calls
FrameNumbers == {1, 2}

WallClock == {1}

\* the warnings ProximityAnalyzer.update can hand to the alert manager
Warnings ==
    {ProximityWarning(p, v, 5, d, t, <<3, 4>>, VehicleCenter) :
        p \in Persons, v \in Vehicles, d \in {1}, t \in {1}}

\* the limits get_recent_events is called with
Limits == {0, 1, 2, 3, 100, 101}

\* what a call of emit_proximity_warning is asked to record
AskedProximity(warning, frame_number, now) ==
    [type |-> "ProximityWarning", timestamp |-> now, frame |-> frame_number,
     person_id |-> warning.person_id, vehicle_id |-> warning.vehicle_id,
     proximity_score |-> warning.proximity_score, duration_s |-> warning.duration_s,
     person_center |-> warning.person_center,
     vehicle_center |-> warning.vehicle_center]

\* what a call of emit_fall_event is asked to record
AskedFall(person_id, location, frame_number, confidence, now) ==
    [type |-> "PersonDown", timestamp |-> now, frame |-> frame_number,
     person_id |-> person_id, location |-> location, confidence |-> confidence]

\* what a call of emit_headcount_mismatch is asked to record
AskedHeadcount(detected, expected, mode, now) ==
    [type |-> "HeadcountMismatch", timestamp |-> now, detected_count |-> detected,
     expected_count |-> expected, mode_count |-> mode]

\* what every emit call leaves behind
AfterEmit(op, r, asked) ==
    /\ alert_manager' = r.self
    /\ am_call' = [op |-> op, raised |-> r.raised]
    /\ am_calls' = am_calls + 1
    /\ am_emitted' = IF r.raised THEN am_emitted ELSE Append(am_emitted, asked)
    /\ am_ret' = [limit |-> 0, events |-> <<>>]
    /\ UNCHANGED <<am_before, am_script, proxVars, fallVars, headVars, regVars, saveVars, connVars>>

\* one call alert_manager.emit_proximity_warning(warning, frame_number)
EmitProximityWarning ==
    /\ am_script = <<>>
    /\ am_calls < MaxEmits
    /\ \E warning \in Warnings, frame_number \in FrameNumbers, now \in WallClock :
        AfterEmit("emit_proximity_warning",
                  emit_proximity_warning(alert_manager, warning, frame_number, now),
                  AskedProximity(warning, frame_number, now))

\* one call alert_manager.emit_fall_event(person_id, location, frame_number, 1.0)
EmitFallEvent ==
    /\ am_script = <<>>
    /\ am_calls < MaxEmits
    /\ \E person_id \in Persons, frame_number \in FrameNumbers, now \in WallClock :
        AfterEmit("emit_fall_event",
                  emit_fall_event(alert_manager, person_id, <<3, 4>>, frame_number, 1, now),
                  AskedFall(person_id, <<3, 4>>, frame_number, 1, now))

\* one call alert_manager.emit_headcount_mismatch(detected, expected, mode)
EmitHeadcountMismatch ==
    /\ am_script = <<>>
    /\ am_calls < MaxEmits
    /\ \E detected \in PeopleCounts, expected \in ExpectedCounts,
          mode \in PeopleCounts, now \in WallClock :
        AfterEmit("emit_headcount_mismatch",
                  emit_headcount_mismatch(alert_manager, detected, expected, mode, now),
                  AskedHeadcount(detected, expected, mode, now))

\* one call alert_manager.get_recent_events(limit)
GetRecentEvents ==
    \E limit \in Limits :
        /\ am_call' = [op |-> "get_recent_events", raised |-> FALSE]
        /\ am_ret' = [limit |-> limit, events |-> get_recent_events(alert_manager, limit)]
        /\ UNCHANGED <<alert_manager, am_calls, am_before, am_emitted, am_script,
                       proxVars, fallVars, headVars, regVars, saveVars, connVars>>

\* the frame loop of a long run: frame k calls the k-th emit method of the
\* script, taken in turn, with the frame's number and clock reading
EmitScripted ==
    /\ am_script # <<>>
    /\ am_calls < MaxScriptedEmits
    /\ LET frame_number == am_calls + 1
           now == am_calls + 1
           op == am_script[(am_calls % Len(am_script)) + 1]
           person_id == 1 + (am_calls % 2)
           warning == ProximityWarning(person_id, 10, 5, 1, now, <<3, 4>>, VehicleCenter)
       IN  CASE op = "emit_proximity_warning" ->
                  AfterEmit(op, emit_proximity_warning(alert_manager, warning, frame_number, now),
                            AskedProximity(warning, frame_number, now))
             [] op = "emit_fall_event" ->
                  AfterEmit(op, emit_fall_event(alert_manager, person_id, <<3, 4>>, frame_number, 1, now),
                            AskedFall(person_id, <<3, 4>>, frame_number, 1, now))
             [] op = "emit_headcount_mismatch" ->
                  AfterEmit(op, emit_headcount_mismatch(alert_manager, 0, 1, 0, now),
                            AskedHeadcount(0, 1, 0, now))

Init == ProxInit /\ FallInit /\ HeadInit /\ RegInit /\ AlertInit /\ SaveInit /\ ConnInit

HeadNext == RecordCount \/ ShouldCheck \/ CheckHeadcount

AlertNext == EmitProximityWarning \/ EmitFallEvent \/ EmitHeadcountMismatch \/ GetRecentEvents

ScriptedNext == EmitScripted \/ GetRecentEvents

SaveNext ==
    MatchVehicle \/ SaveOpen \/ SaveWrite \/ SaveClose \/ SaveCrash \/ Restart \/ Reload

ConnNext == Connect \/ EndpointDisconnect \/ Broadcast \/ SendReturns

Next ==
    \/ ProxUpdate \/ FallUpdate \/ FallUpdateAnyTime \/ HeadNext
    \/ SaveNext \/ AlertNext \/ EmitScripted \/ ConnNext

\* the whole engine: every tracker driven by its own caller
Spec == Init /\ [][Next]_vars

\* one tracker at a time, the others left as constructed
InitProx == ProxInit /\ FallIdle /\ HeadIdle /\ RegIdle /\ AlertIdle /\ SaveNone /\ ConnInit

SpecProx == InitProx /\ [][ProxUpdate]_vars

InitFall == FallInit /\ ProxIdle /\ HeadIdle /\ RegIdle /\ AlertIdle /\ SaveNone /\ ConnInit

SpecFall == InitFall /\ [][FallUpdate]_vars

InitHead == HeadInit /\ ProxIdle /\ FallIdle /\ RegIdle /\ AlertIdle /\ SaveNone /\ ConnInit

SpecHead == InitHead /\ [][HeadNext]_vars

InitReg == RegInit /\ ProxIdle /\ FallIdle /\ HeadIdle /\ AlertIdle /\ SaveInit /\ ConnInit

SpecReg == InitReg /\ [][MatchVehicle]_vars

InitAlert == AlertInit /\ ProxIdle /\ FallIdle /\ HeadIdle /\ RegIdle /\ SaveNone /\ ConnInit

SpecAlert == InitAlert /\ [][AlertNext]_vars

\* the fall detector given timestamps in any order
SpecFallAnyTime == InitFall /\ [][FallUpdateAnyTime]_vars

\* the registry matched, saved, and loaded again after a crash
InitSave == RegInit /\ SaveInit /\ ProxIdle /\ FallIdle /\ HeadIdle /\ AlertIdle /\ ConnInit

SpecSave == InitSave /\ [][SaveNext]_vars

\* the WebSocket server
InitConn == ConnInit /\ ProxIdle /\ FallIdle /\ HeadIdle /\ RegIdle /\ AlertIdle /\ SaveNone

SpecConn == InitConn /\ [][ConnNext]_vars

\* a long run of the frame loop
InitScripted == ScriptedInit /\ ProxIdle /\ FallIdle /\ HeadIdle /\ RegIdle /\ SaveNone /\ ConnInit

SpecScripted == InitScripted /\ [][ScriptedNext]_vars

====
